---- MODULE Spec2Model ----
(***************************************************************************)
(* A model of the wajs Client (src/unnamed/part_003 is src/Client.js):     *)
(* Client.initialize, the handlers it exposes to the page, and the         *)
(* structures they build.                                                  *)
(*                                                                         *)
(* `call' is the handler invocation that ran last and `out' the effects    *)
(* it produced, in program order: events emitted on the Client, calls of   *)
(* destroy() and timers set.                                               *)
(*                                                                         *)
(* `cmd' is the command in progress (Client.sendMessage,                   *)
(* GroupChat.addParticipants) and `remote' the calls it made inside the    *)
(* page, in order.                                                         *)
(***************************************************************************)
EXTENDS Integers, Sequences, FiniteSets, TLC

VARIABLES
    options,        \* this.options after mergeDefault
    pc,             \* position of Client.initialize
    probe,          \* result of the isRegistered probe, "pending" before it
    authListener,   \* a conn.auth_code_change listener is installed on the page
    browser,        \* this.playBrowser: "null", "open", "closing", "closed"
    qrRetries,      \* the closure variable `let qrRetries' of initialize
    last_message,   \* the closure variable `let last_message' of initialize
    timers,         \* takeover timeouts set and not yet expired
    call,           \* the handler invocation that ran last
    out,            \* its effects, in program order
    qrCount,        \* qr events emitted so far
    authFailures,   \* authentication_failure events emitted so far
    disconnects,    \* disconnected events emitted so far
    destroyCalls,   \* calls of Client.destroy so far
    page,           \* what the page has reached: "none" before it is
                    \* opened, "unregistered", "registered", "loaded"
                    \* (conn.main_loaded fired), "ready" (conn.main_ready)
    lifecycle,      \* authenticated, loading_screen, ready events emitted so far
    cmd,            \* the command of the Client or of a structure in progress
    remote,         \* the calls that command made inside the page, in order
    group,          \* the fields of a GroupChat the caller holds
    store           \* the messages of the page's MsgStore, by id.id

vars == <<options, pc, probe, authListener, browser, qrRetries, last_message,
          timers, call, out, qrCount, authFailures, disconnects, destroyCalls,
          page, lifecycle, cmd, remote, group, store>>

initVars == <<options, pc, probe, authListener>>
connVars == <<browser, qrRetries, timers, qrCount, authFailures, disconnects,
              destroyCalls, lifecycle>>
cmdVars == <<cmd, remote, group, store>>

-----------------------------------------------------------------------------
(* Bounds of the model *)

\* id.id of a message snapshot ranges over 1..MaxMsgId
MaxMsgId == 2
\* messages the page's MsgStore holds in one run
MaxStored == 2
\* changes of the body of one message in one run
MaxEdits == 1
\* qr codes the page hands to qrChanged in one run
MaxQr == 3
\* takeover timeouts pending at once
MaxTimers == 2
\* calls of destroy() in one run
MaxDestroy == 2
\* participant ids in one call of addParticipants
MaxParticipants == 2

-----------------------------------------------------------------------------
(* JavaScript values *)

Undefined == "undefined"

\* arr[0], arr[1], ... of a JavaScript array: undefined past the end
Idx(arr, i) == IF i \in 1..Len(arr) THEN arr[i] ELSE Undefined

\* Array.prototype.includes
Includes(arr, x) == \E i \in 1..Len(arr) : arr[i] = x

\* Array.prototype.find with the predicate  id => id !== x
FindNotEqual(arr, x) ==
    IF \E i \in 1..Len(arr) : arr[i] # x
    THEN arr[CHOOSE i \in 1..Len(arr) :
                /\ arr[i] # x
                /\ \A j \in 1..(i - 1) : arr[j] = x]
    ELSE Undefined

\* A JavaScript number variable: undefined, NaN or an integer
JsUndefined == [kind |-> "undefined", val |-> 0]
JsNaN == [kind |-> "NaN", val |-> 0]
JsNum(n) == [kind |-> "number", val |-> n]

\* v++ : ToNumber(undefined) is NaN and NaN + 1 is NaN
JsIncrement(v) == IF v.kind = "number" THEN JsNum(v.val + 1) ELSE JsNaN

\* v > n : every comparison with NaN is false
JsGreater(v, n) == v.kind = "number" /\ v.val > n

-----------------------------------------------------------------------------
(* Raw message snapshots, as window.WAJS.getMessageModel hands them over *)

\* msg.id: the id string and the from-me flag
MsgKeys == [id : 1..MaxMsgId, fromMe : BOOLEAN]

Snapshot(type, subtype, key, author, to, recipients, templateParams) ==
    [type |-> type, subtype |-> subtype, id |-> key, author |-> author,
     to |-> to, recipients |-> recipients, templateParams |-> templateParams]

\* subtypes a gp2 (group notification) snapshot carries
Gp2Subtypes ==
    {"add", "invite", "linked_group_join", "remove", "leave", "promote",
     "demote", "created_membership_requests", "modify", "subject", "announce"}

\* ordinary messages, revoked ones among them
PlainMsgs ==
    { Snapshot(t, Undefined, k, Undefined, "b@c.us", <<>>, <<>>) :
        t \in {"chat", "image", "revoked"}, k \in MsgKeys }

\* group notifications; a participant's number change is subtype modify
Gp2Msgs ==
    { Snapshot("gp2", s, [id |-> 1, fromMe |-> f], "a@c.us", Undefined,
               <<"b@c.us">>, <<>>) : s \in Gp2Subtypes, f \in BOOLEAN }
    \cup
    { Snapshot("gp2", "modify", [id |-> 1, fromMe |-> FALSE], a, Undefined, r, <<>>) :
        a \in {"a@c.us", "c@c.us"}, r \in {<<"c@c.us", "b@c.us">>, <<>>} }

\* notification templates; a contact's number change is subtype change_number
TemplateMsgs ==
    { Snapshot("notification_template", s, [id |-> MaxMsgId, fromMe |-> FALSE],
               Undefined, to, <<>>, tp) :
        s \in {"change_number", "e2e_encrypted"}, to \in {"b@c.us", "c@c.us"},
        tp \in {<<"b@c.us", "a@c.us">>, <<"a@c.us", "b@c.us">>, <<"b@c.us">>} }

\* snapshots that carry one half of a number-change signature only
DecoyMsgs ==
    { Snapshot("chat", "modify", [id |-> 1, fromMe |-> FALSE], "a@c.us",
               "b@c.us", <<"b@c.us">>, <<>>),
      Snapshot("chat", "change_number", [id |-> 1, fromMe |-> FALSE], Undefined,
               "b@c.us", <<>>, <<"b@c.us", "a@c.us">>),
      Snapshot("gp2", "change_number", [id |-> 1, fromMe |-> FALSE], "a@c.us",
               "b@c.us", <<"b@c.us">>, <<"b@c.us", "a@c.us">>),
      Snapshot("notification_template", "modify", [id |-> 1, fromMe |-> FALSE],
               "a@c.us", "b@c.us", <<"c@c.us">>, <<"b@c.us", "a@c.us">>) }

Msgs == PlainMsgs \cup Gp2Msgs \cup TemplateMsgs \cup DecoyMsgs

-----------------------------------------------------------------------------
(* Structures *)

\* new Message(client, data): _data is the snapshot itself, the other
\* fields are copies of its fields
Message(data) ==
    [class |-> "Message", _data |-> data, id |-> data.id, type |-> data.type,
     fromMe |-> data.id.fromMe, author |-> data.author, to |-> data.to]

\* a Message argument that is undefined
NoMessage == [class |-> "undefined"]

\* new GroupNotification(client, data)
GroupNotification(data) ==
    [class |-> "GroupNotification", id |-> data.id, type |-> data.subtype,
     author |-> data.author, recipientIds |-> data.recipients]

-----------------------------------------------------------------------------
(* Effects of a handler *)

\* this.emit(name, ...args)
Emit(name, args) == [op |-> "emit", name |-> name, args |-> args]

\* this.destroy()
Destroy == [op |-> "destroy", name |-> "destroy", args |-> <<>>]

\* setTimeout(fn, delay)
SetTimeout(fn, delay) == [op |-> "setTimeout", name |-> fn, args |-> <<delay>>]

\* the handler invocation  fn(...args)
Call(fn, args) == [fn |-> fn, args |-> args]

NoCall == Call("none", <<>>)

\* a GroupChat: id._serialized, name, groupMetadata.desc, .announce, .restrict
GroupChat(name, desc, announce, restrict) ==
    [class |-> "GroupChat", id |-> "g@g.us", name |-> name, desc |-> desc,
     announce |-> announce, restrict |-> restrict]

\* no command in progress
NoCmd == [fn |-> "none", pc |-> "idle"]

\* positions in effs of the events called name
Positions(effs, name) ==
    { i \in 1..Len(effs) : effs[i].op = "emit" /\ effs[i].name = name }

\* positions in effs of the calls of destroy()
DestroyPositions(effs) == { i \in 1..Len(effs) : effs[i].op = "destroy" }

\* how many events called name effs holds
Count(effs, name) == Cardinality(Positions(effs, name))

-----------------------------------------------------------------------------
(* Events, by the names the Client documents (@event Client#...) *)

QR_RECEIVED == "qr"
CODE_RECEIVED == "code"
AUTHENTICATED == "authenticated"
AUTHENTICATION_FAILURE == "auth_failure"
MESSAGE_CREATE == "message_create"
MESSAGE_RECEIVED == "message"
MESSAGE_REVOKED_EVERYONE == "message_revoke_everyone"
CONTACT_CHANGED == "contact_changed"
GROUP_JOIN == "group_join"
GROUP_LEAVE == "group_leave"
GROUP_ADMIN_CHANGED == "group_admin_changed"
GROUP_MEMBERSHIP_REQUEST == "group_membership_request"
GROUP_UPDATE == "group_update"
STATE_CHANGED == "change_state"
READY == "ready"
LOADING_SCREEN == "loading_screen"
DISCONNECTED == "disconnected"

-----------------------------------------------------------------------------
(* The message handlers initialize exposes to the page *)

\* the routing of a group notification, with the leave branch left out
GroupEvent_NoLeave(subtype) ==
    IF subtype \in {"add", "invite", "linked_group_join"} THEN GROUP_JOIN
    ELSE IF subtype = "promote" \/ subtype = "demote" THEN GROUP_ADMIN_CHANGED
    ELSE IF subtype = "created_membership_requests" THEN GROUP_MEMBERSHIP_REQUEST
    ELSE GROUP_UPDATE

\* the event a group notification is routed to, by subtype
GroupEvent(subtype) ==
    IF subtype \in {"add", "invite", "linked_group_join"} THEN GROUP_JOIN
    ELSE IF subtype = "remove" \/ subtype = "leave" THEN GROUP_LEAVE
    ELSE IF subtype = "promote" \/ subtype = "demote" THEN GROUP_ADMIN_CHANGED
    ELSE IF subtype = "created_membership_requests" THEN GROUP_MEMBERSHIP_REQUEST
    ELSE GROUP_UPDATE

\* onAddMessageEvent, with the from-me test left out
AddMessageEffects_NoFromMeTest(msg) ==
    IF msg.type = "gp2"
    THEN << Emit(GroupEvent(msg.subtype), <<GroupNotification(msg)>>) >>
    ELSE << Emit(MESSAGE_CREATE, <<Message(msg)>>),
            Emit(MESSAGE_RECEIVED, <<Message(msg)>>) >>

\* onAddMessageEvent, with the early return of the gp2 branch left out
AddMessageEffects_NoGp2Return(msg) ==
    (IF msg.type = "gp2"
     THEN << Emit(GroupEvent(msg.subtype), <<GroupNotification(msg)>>) >>
     ELSE << >>)
    \o << Emit(MESSAGE_CREATE, <<Message(msg)>>) >>
    \o (IF msg.id.fromMe THEN << >>
        ELSE << Emit(MESSAGE_RECEIVED, <<Message(msg)>>) >>)

\* onAddMessageEvent(msg): what it emits
AddMessageEffects(msg) ==
    IF msg.type = "gp2"
    THEN << Emit(GroupEvent(msg.subtype), <<GroupNotification(msg)>>) >>
    ELSE << Emit(MESSAGE_CREATE, <<Message(msg)>>) >>
         \o (IF msg.id.fromMe THEN << >>
             ELSE << Emit(MESSAGE_RECEIVED, <<Message(msg)>>) >>)

\* the revoked_msg of onChangeMessageTypeEvent, with the id test left out
RevokedMsg_NoIdTest(msg, last) ==
    IF last # << >> THEN Message(last[1]) ELSE NoMessage

\* the revoked_msg of onChangeMessageTypeEvent: last is the last_message slot
RevokedMsg(msg, last) ==
    IF last # << >> /\ msg.id.id = last[1].id.id
    THEN Message(last[1])
    ELSE NoMessage

\* onChangeMessageTypeEvent(msg): what it emits
ChangeMessageTypeEffects(msg, last) ==
    IF msg.type = "revoked"
    THEN << Emit(MESSAGE_REVOKED_EVERYONE, <<Message(msg), RevokedMsg(msg, last)>>) >>
    ELSE << >>

\* the slot after onChangeMessageEvent, with the revoked test left out
ChangeMessageSlot_AnyType(msg, last) == <<msg>>

\* onChangeMessageEvent(msg): what it leaves in last_message
ChangeMessageSlot(msg, last) ==
    IF msg.type # "revoked" THEN <<msg>> ELSE last

isParticipant(msg) == msg.type = "gp2" /\ msg.subtype = "modify"

isContact(msg) == msg.type = "notification_template" /\ msg.subtype = "change_number"

\* the newId of onChangeMessageEvent
NewId(msg) == IF isParticipant(msg) THEN Idx(msg.recipients, 1) ELSE msg.to

\* the oldId of onChangeMessageEvent, taken from the wrong end
OldId_FirstParam(msg) ==
    IF isParticipant(msg) THEN msg.author ELSE Idx(msg.templateParams, 1)

\* the oldId of onChangeMessageEvent
OldId(msg) ==
    IF isParticipant(msg) THEN msg.author
    ELSE FindNotEqual(msg.templateParams, NewId(msg))

\* onChangeMessageEvent(msg): what it emits
ChangeMessageEffects(msg) ==
    IF isParticipant(msg) \/ isContact(msg)
    THEN << Emit(CONTACT_CHANGED,
                 <<Message(msg), OldId(msg), NewId(msg), isContact(msg)>>) >>
    ELSE << >>

-----------------------------------------------------------------------------
(* Client options *)

\* the qrMaxRetries the README configures
QrMaxRetries == 2

\* the options a Client is constructed with
OptionSets ==
    [qrMaxRetries : {0, QrMaxRetries},
     takeoverOnConflict : BOOLEAN,
     takeoverTimeoutMs : {0, 3000},
     pairingNumber : {"", "62812"}]

-----------------------------------------------------------------------------
(* The connection handlers initialize exposes to the page *)

\* connection states the page reports (WAState)
States ==
    {"CONNECTED", "OPENING", "PAIRING", "TIMEOUT", "CONFLICT",
     "UNPAIRED", "UNPAIRED_IDLE", "UNLAUNCHED"}

\* auth codes the page reports (auth.fullCode)
AuthCodes == {"2@abc", "2@xyz"}

\* auth.fullCode + ',1'
Qr(fullCode) == <<fullCode, ",1">>

\* the linking code genLinkDeviceCodeForPhoneNumber returns
LinkCode(pairingNumber) == <<"link", pairingNumber>>

\* let qrRetries;
QrRetriesInit == JsUndefined

\* qrRetries after qrChanged
QrRetriesAfter(opts, retries) ==
    IF opts.qrMaxRetries > 0 THEN JsIncrement(retries) ELSE retries

\* qrChanged(qr): what it emits and calls
QrChangedEffects(qr, opts, retries) ==
    << Emit(QR_RECEIVED, <<qr>>) >>
    \o (IF opts.qrMaxRetries > 0
           /\ JsGreater(QrRetriesAfter(opts, retries), opts.qrMaxRetries)
        THEN << Emit(DISCONNECTED, <<"Max qrcode retries reached">>), Destroy >>
        ELSE << >>)

\* ACCEPTED_STATES, with CONFLICT accepted whatever the options say
ACCEPTED_STATES_AlwaysConflict(opts) ==
    <<"CONNECTED", "OPENING", "PAIRING", "TIMEOUT", "CONFLICT">>

\* ACCEPTED_STATES, without TIMEOUT
ACCEPTED_STATES_NoTimeout(opts) ==
    <<"CONNECTED", "OPENING", "PAIRING">>
    \o (IF opts.takeoverOnConflict THEN <<"CONFLICT">> ELSE << >>)

\* ACCEPTED_STATES of onAppStateChangedEvent
ACCEPTED_STATES(opts) ==
    <<"CONNECTED", "OPENING", "PAIRING", "TIMEOUT">>
    \o (IF opts.takeoverOnConflict THEN <<"CONFLICT">> ELSE << >>)

\* onAppStateChangedEvent, emitting change_state last
AppStateChangedEffects_StateChangedLast(state, opts) ==
    (IF opts.takeoverOnConflict /\ state = "CONFLICT"
     THEN << SetTimeout("takeover", opts.takeoverTimeoutMs) >>
     ELSE << >>)
    \o (IF ~Includes(ACCEPTED_STATES(opts), state)
        THEN << Emit(DISCONNECTED, <<state>>), Destroy >>
        ELSE << >>)
    \o << Emit(STATE_CHANGED, <<state>>) >>

\* onAppStateChangedEvent, tearing down before it emits disconnected
AppStateChangedEffects_DestroyFirst(state, opts) ==
    << Emit(STATE_CHANGED, <<state>>) >>
    \o (IF opts.takeoverOnConflict /\ state = "CONFLICT"
        THEN << SetTimeout("takeover", opts.takeoverTimeoutMs) >>
        ELSE << >>)
    \o (IF ~Includes(ACCEPTED_STATES(opts), state)
        THEN << Destroy, Emit(DISCONNECTED, <<state>>) >>
        ELSE << >>)

\* onAppStateChangedEvent(state): what it emits, sets and calls
AppStateChangedEffects(state, opts) ==
    << Emit(STATE_CHANGED, <<state>>) >>
    \o (IF opts.takeoverOnConflict /\ state = "CONFLICT"
        THEN << SetTimeout("takeover", opts.takeoverTimeoutMs) >>
        ELSE << >>)
    \o (IF ~Includes(ACCEPTED_STATES(opts), state)
        THEN << Emit(DISCONNECTED, <<state>>), Destroy >>
        ELSE << >>)

\* EmitEvent(event, ...data), the function the page emits through: nothing
\* is emitted for an event name that is not truthy
EmitEvent(event, args) ==
    IF event # Undefined /\ event # "" THEN << Emit(event, args) >> ELSE << >>

\* how many effects with operation op effs holds
CountOp(effs, op) == Cardinality({ i \in 1..Len(effs) : effs[i].op = op })

\* this.playBrowser after the calls of destroy() among effs
BrowserAfter(b, effs) ==
    IF CountOp(effs, "destroy") > 0 /\ b = "open" THEN "closing" ELSE b

\* the options the README documents as the defaults
DefaultOptions ==
    [qrMaxRetries |-> QrMaxRetries, takeoverOnConflict |-> FALSE,
     takeoverTimeoutMs |-> 0, pairingNumber |-> ""]

-----------------------------------------------------------------------------
(* The state after  new Client(opts)  *)

Constructed(opts) ==
    /\ options = opts
    /\ pc = "constructed"
    /\ probe = "pending"
    /\ authListener = FALSE
    /\ browser = "null"
    /\ qrRetries = JsUndefined
    /\ last_message = << >>
    /\ timers = 0
    /\ call = NoCall
    /\ out = << >>
    /\ qrCount = 0
    /\ authFailures = 0
    /\ disconnects = 0
    /\ destroyCalls = 0
    /\ page = "none"
    /\ lifecycle = {}
    /\ cmd = NoCmd
    /\ remote = << >>
    /\ group = GroupChat("Old", "Old", "false", "false")
    /\ store = << >>

\* new Client()
Init == Constructed(DefaultOptions)

\* new Client(options)
InitOptions == \E opts \in OptionSets : Constructed(opts)

\* the page lives: it can call the functions exposed to it
PageAlive == browser \in {"open", "closing"}

\* the events of the Client's start-up that effs holds
Lifecycle(effs) ==
    { e \in {AUTHENTICATED, LOADING_SCREEN, READY} : Count(effs, e) > 0 }

\* the bookkeeping of the effects effs of one handler invocation
Account(effs) ==
    /\ out' = effs
    /\ browser' = BrowserAfter(browser, effs)
    /\ timers' = timers + CountOp(effs, "setTimeout")
    /\ qrCount' = qrCount + Count(effs, QR_RECEIVED)
    /\ authFailures' = authFailures + Count(effs, AUTHENTICATION_FAILURE)
    /\ disconnects' = disconnects + Count(effs, DISCONNECTED)
    /\ destroyCalls' = destroyCalls + CountOp(effs, "destroy")
    /\ lifecycle' = lifecycle \cup Lifecycle(effs)

-----------------------------------------------------------------------------
(* Client.initialize *)

\* getPage, playBrowser and playPage set
InitializeGetPage ==
    /\ pc = "constructed"
    /\ pc' = "page"
    /\ browser' = "open"
    /\ page' \in {"unregistered", "registered"}
    /\ call' = Call("initialize", <<"getPage">>)
    /\ out' = << >>
    /\ UNCHANGED <<options, probe, authListener, qrRetries, last_message, timers,
                   qrCount, authFailures, disconnects, destroyCalls, lifecycle,
                   cmdVars>>

\* the closure variables declared and the handlers exposed to the page
InitializeExpose ==
    /\ pc = "page"
    /\ pc' = "exposed"
    /\ qrRetries' = QrRetriesInit
    /\ last_message' = << >>
    /\ call' = Call("initialize", <<"exposeFunction">>)
    /\ out' = << >>
    /\ UNCHANGED <<options, probe, authListener, browser, timers,
                   qrCount, authFailures, disconnects, destroyCalls, page,
                   lifecycle, cmdVars>>

\* whether the probe's result installs the conn.auth_code_change listener,
\* with null taken for false
ProbeInstallsListener_NullAsFalse(r) == r # "true"

\* whether the probe's result installs the conn.auth_code_change listener
ProbeInstallsListener(r) == r = "false"

\* what the probe's result emits
ProbeEffects(r) ==
    IF r = "null"
    THEN EmitEvent(AUTHENTICATION_FAILURE, <<"streamStatus">>)
    ELSE << >>

\* what WPP.conn.isRegistered() can answer: true only when the page is
\* registered, false only when it is not, null when it cannot tell
ProbeResults(pg) ==
    IF pg = "unregistered" THEN {"false", "null"} ELSE {"true", "null"}

\* the isRegistered probe and its two branches
InitializeProbe ==
    /\ pc = "exposed"
    /\ PageAlive
    /\ \E r \in ProbeResults(page) :
          /\ probe' = r
          /\ authListener' = ProbeInstallsListener(r)
          /\ call' = Call("initialize", <<"isRegistered", r>>)
          /\ Account(ProbeEffects(r))
    /\ pc' = "waitRegistered"
    /\ UNCHANGED <<options, qrRetries, last_message, page, cmdVars>>

\* the predicate waitForFunction polls: WPP.conn.isRegistered() is truthy
IsRegistered(pg) == pg \in {"registered", "loaded", "ready"}

\* waitForFunction(isRegistered) resolves: authenticated is emitted and the
\* store subscriptions are installed
InitializeAuthenticated ==
    /\ pc = "waitRegistered"
    /\ PageAlive
    /\ IsRegistered(page)
    /\ pc' = "subscribed"
    /\ call' = Call("initialize", <<"authenticated">>)
    /\ Account(EmitEvent(AUTHENTICATED, <<"streamStatus">>))
    /\ UNCHANGED <<options, probe, authListener, qrRetries, last_message, page,
                   cmdVars>>

\* the handlers can be called as soon as they are exposed
Subscribed_WhenExposed ==
    pc \in {"exposed", "waitRegistered", "subscribed"} /\ PageAlive

\* the handlers of the store subscriptions can be called
Subscribed == pc = "subscribed" /\ PageAlive

-----------------------------------------------------------------------------
(* What the page does by itself, and the listeners of initialize's last    *)
(* evaluate: conn.main_loaded and conn.main_ready                          *)

\* the device is linked: WPP.conn.isRegistered() turns true
PageRegistered ==
    /\ PageAlive
    /\ page = "unregistered"
    /\ page' = "registered"
    /\ UNCHANGED <<initVars, connVars, last_message, call, out, cmdVars>>

\* getHistorySyncProgress() as the conn.main_loaded listener reads it
SyncProgress == {[inProgress |-> TRUE, progress |-> 50],
                 [inProgress |-> FALSE, progress |-> 0]}

\* the conn.main_loaded listener, with the listener installed from the start
MainLoadedEffects_AlwaysListening(listening, info) ==
    IF info.inProgress
    THEN EmitEvent(LOADING_SCREEN, <<info.progress, "% Organizing your messages">>)
    ELSE EmitEvent(LOADING_SCREEN, <<"", "Loading Your Chats">>)

\* the conn.main_loaded listener: loading_screen with the sync progress
MainLoadedEffects(listening, info) ==
    IF ~listening THEN << >>
    ELSE IF info.inProgress
    THEN EmitEvent(LOADING_SCREEN, <<info.progress, "% Organizing your messages">>)
    ELSE EmitEvent(LOADING_SCREEN, <<"", "Loading Your Chats">>)

\* the conn.main_ready listener: ready
MainReadyEffects(listening) ==
    IF listening THEN EmitEvent(READY, << >>) ELSE << >>

\* the page fires conn.main_loaded
PageMainLoaded ==
    /\ PageAlive
    /\ page = "registered"
    /\ page' = "loaded"
    /\ \E info \in SyncProgress :
          /\ call' = Call("conn.main_loaded", <<info>>)
          /\ Account(MainLoadedEffects(pc = "subscribed", info))
    /\ UNCHANGED <<initVars, qrRetries, last_message, cmdVars>>

\* the page fires conn.main_ready
PageMainReady ==
    /\ PageAlive
    /\ page = "loaded"
    /\ page' = "ready"
    /\ call' = Call("conn.main_ready", << >>)
    /\ Account(MainReadyEffects(pc = "subscribed"))
    /\ UNCHANGED <<initVars, qrRetries, last_message, cmdVars>>

-----------------------------------------------------------------------------
(* Message handlers *)

onAddMessageEvent ==
    /\ Subscribed
    /\ \E msg \in Msgs :
          /\ call' = Call("onAddMessageEvent", <<msg>>)
          /\ out' = AddMessageEffects(msg)
    /\ UNCHANGED <<initVars, connVars, last_message, page, cmdVars>>

onChangeMessageTypeEvent ==
    /\ Subscribed
    /\ \E msg \in Msgs :
          /\ call' = Call("onChangeMessageTypeEvent", <<msg>>)
          /\ out' = ChangeMessageTypeEffects(msg, last_message)
    /\ UNCHANGED <<initVars, connVars, last_message, page, cmdVars>>

onChangeMessageEvent ==
    /\ Subscribed
    /\ \E msg \in Msgs :
          /\ call' = Call("onChangeMessageEvent", <<msg>>)
          /\ last_message' = ChangeMessageSlot(msg, last_message)
          /\ out' = ChangeMessageEffects(msg)
    /\ UNCHANGED <<initVars, connVars, page, cmdVars>>

-----------------------------------------------------------------------------
(* Connection handlers *)

\* the listener's test  if (pairingNumber), with the test left out
UsesPairingCode_Never(opts) == FALSE

\* the listener's test  if (pairingNumber)
UsesPairingCode(opts) == opts.pairingNumber # ""

\* the page's conn.auth_code_change listener: a linking code through
\* EmitEvent when a pairing number is configured, qrChanged otherwise
AuthCodeChange ==
    /\ authListener
    /\ PageAlive
    /\ page = "unregistered"
    /\ qrCount < MaxQr
    /\ destroyCalls < MaxDestroy
    /\ \E auth \in AuthCodes :
          IF UsesPairingCode(options)
          THEN /\ call' = Call("EmitEvent", <<CODE_RECEIVED>>)
               /\ Account(EmitEvent(CODE_RECEIVED, <<LinkCode(options.pairingNumber)>>))
               /\ UNCHANGED qrRetries
          ELSE /\ call' = Call("qrChanged", <<Qr(auth)>>)
               /\ qrRetries' = QrRetriesAfter(options, qrRetries)
               /\ Account(QrChangedEffects(Qr(auth), options, qrRetries))
    /\ UNCHANGED <<initVars, last_message, page, cmdVars>>

onAppStateChangedEvent ==
    /\ Subscribed
    /\ timers < MaxTimers
    /\ destroyCalls < MaxDestroy
    /\ \E state \in States :
          /\ call' = Call("onAppStateChangedEvent", <<state>>)
          /\ Account(AppStateChangedEffects(state, options))
    /\ UNCHANGED <<initVars, qrRetries, last_message, page, cmdVars>>

\* a takeover timeout expires: playPage.evaluate(Socket.takeover)
TakeoverTimeout ==
    /\ timers > 0
    /\ timers' = timers - 1
    /\ call' = Call("takeover", << >>)
    /\ out' = << [op |-> "evaluate", name |-> "Socket.takeover",
                  args |-> <<browser>>] >>
    /\ UNCHANGED <<initVars, browser, qrRetries, last_message, qrCount,
                   authFailures, disconnects, destroyCalls, lifecycle, page,
                   cmdVars>>

\* playBrowser.close() completes
BrowserClosed ==
    /\ browser = "closing"
    /\ browser' = "closed"
    /\ UNCHANGED <<initVars, qrRetries, last_message, timers, call, out,
                   qrCount, authFailures, disconnects, destroyCalls, lifecycle,
                   page, cmdVars>>

-----------------------------------------------------------------------------
(* Client.sendMessage: the values it is called with *)

\* an object that is unset, or the value undefined where objects are expected
NoValue == [class |-> "undefined"]

\* a JavaScript string
Str(v) == [class |-> "string", value |-> v]

\* new MessageMedia(mimetype, data); a mimetype is the sequence of its words
MessageMedia(mimetype) == [class |-> "MessageMedia", mimetype |-> mimetype]

\* a plain object with the fields of a MessageMedia (or without a mimetype)
PlainObject(mimetype) == [class |-> "Object", mimetype |-> mimetype]

\* new Location(...), new Poll(...), a Contact with id._serialized = id
Location == [class |-> "Location"]
Poll == [class |-> "Poll"]
Contact(id) == [class |-> "Contact", id |-> id]

\* a JavaScript array
Array(items) == [class |-> "Array", items |-> items]

\* x instanceof cls
InstanceOf(x, cls) == x.class = cls

\* the mimetype of a value, undefined for a value without one
MimetypeOf(x) ==
    IF x.class \in {"MessageMedia", "Object"} THEN x.mimetype ELSE <<Undefined>>

\* /word/.test(mimetype)
TestMimetype(word, mimetype) == Includes(mimetype, word)

Mimetypes == {<<"image", "png">>, <<"video", "mp4">>, <<"audio", "ogg">>}

\* the contents sendMessage is called with
Contents ==
    {Str("hi"), Str(""), Location, Poll, Contact("c1@c.us")}
    \cup {MessageMedia(mt) : mt \in Mimetypes}
    \cup {PlainObject(mt) : mt \in {<<"image", "png">>, <<"video", "mp4">>, <<Undefined>>}}
    \cup {Array(<<Contact("c1@c.us"), Contact("c2@c.us")>>), Array(<< >>),
          Array(<<Str("hi")>>)}

\* undefined, true, false as the value of an option
Tri == {"undefined", "true", "false"}

\* the truthiness of such a value
Truthy(v) == v = "true"

\* the options sendMessage is called with
SendOptions ==
    [linkPreview : Tri, parseVCards : Tri, sendSeen : Tri,
     sendMediaAsSticker : {"undefined", "true"},
     media : {NoValue, MessageMedia(<<"image", "png">>)}]

ChatIds == {"status@broadcast", "123@c.us"}

-----------------------------------------------------------------------------
(* Client.sendMessage: the options it hands on and the dispatch on content *)

\* linkPreview, with any value but true disabling the preview
LinkPreview_OnlyTrue(opts) ==
    IF opts.linkPreview = "true" THEN "true" ELSE "undefined"

\* linkPreview: options.linkPreview === false ? undefined : true
LinkPreview(opts) == IF opts.linkPreview = "false" THEN "undefined" ELSE "true"

\* parseVCards: options.parseVCards === false ? false : true
ParseVCards(opts) == IF opts.parseVCards = "false" THEN "false" ELSE "true"

\* sendSeen: typeof options.sendSeen === 'undefined' ? true : options.sendSeen
SendSeen(opts) == IF opts.sendSeen = "undefined" THEN "true" ELSE opts.sendSeen

\* internalOptions as the object literal builds it: no bucket is set yet
InternalOptions(opts) ==
    [linkPreview |-> LinkPreview(opts),
     parseVCards |-> ParseVCards(opts),
     sendMediaAsSticker |-> opts.sendMediaAsSticker,
     caption |-> NoValue,
     attachment |-> NoValue,
     location |-> NoValue,
     poll |-> NoValue,
     contactCard |-> NoValue,
     contactCardList |-> NoValue]

\* Array.isArray(c) && c.length > 0 && c[0] instanceof Contact
IsContactList(c) ==
    /\ InstanceOf(c, "Array")
    /\ Len(c.items) > 0
    /\ InstanceOf(c.items[1], "Contact")

\* the if / else-if chain, with Location tested before options.media
Branch_LocationFirst(content, opts) ==
    IF InstanceOf(content, "MessageMedia") THEN "media"
    ELSE IF InstanceOf(content, "Location") THEN "location"
    ELSE IF InstanceOf(opts.media, "MessageMedia") THEN "optionsMedia"
    ELSE IF InstanceOf(content, "Poll") THEN "poll"
    ELSE IF InstanceOf(content, "Contact") THEN "contact"
    ELSE IF IsContactList(content) THEN "contactList"
    ELSE "text"

\* the branch of the if / else-if chain that runs; "text" when none does
Branch(content, opts) ==
    IF InstanceOf(content, "MessageMedia") THEN "media"
    ELSE IF InstanceOf(opts.media, "MessageMedia") THEN "optionsMedia"
    ELSE IF InstanceOf(content, "Location") THEN "location"
    ELSE IF InstanceOf(content, "Poll") THEN "poll"
    ELSE IF InstanceOf(content, "Contact") THEN "contact"
    ELSE IF IsContactList(content) THEN "contactList"
    ELSE "text"

\* content.map(contact => contact.id._serialized)
SerializedIds(items) == [i \in 1..Len(items) |-> Str(items[i].id)]

\* the bodies of the branches, with options.media leaving content in place
Dispatch_ContentKept(branch, content, opts, internal) ==
    CASE branch = "media" ->
            [content |-> Str(""), options |-> [internal EXCEPT !.attachment = content]]
      [] branch = "optionsMedia" ->
            [content |-> content,
             options |-> [internal EXCEPT !.attachment = opts.media,
                                          !.caption = content]]
      [] branch = "location" ->
            [content |-> Str(""), options |-> [internal EXCEPT !.location = content]]
      [] branch = "poll" ->
            [content |-> Str(""), options |-> [internal EXCEPT !.poll = content]]
      [] branch = "contact" ->
            [content |-> Str(""),
             options |-> [internal EXCEPT !.contactCard = Str(content.id)]]
      [] branch = "contactList" ->
            [content |-> Str(""),
             options |-> [internal EXCEPT
                            !.contactCardList = Array(SerializedIds(content.items))]]
      [] OTHER -> [content |-> content, options |-> internal]

\* the bodies of the branches: the bucket set and content cleared
Dispatch(branch, content, opts, internal) ==
    CASE branch = "media" ->
            [content |-> Str(""), options |-> [internal EXCEPT !.attachment = content]]
      [] branch = "optionsMedia" ->
            [content |-> Str(""),
             options |-> [internal EXCEPT !.attachment = opts.media,
                                          !.caption = content]]
      [] branch = "location" ->
            [content |-> Str(""), options |-> [internal EXCEPT !.location = content]]
      [] branch = "poll" ->
            [content |-> Str(""), options |-> [internal EXCEPT !.poll = content]]
      [] branch = "contact" ->
            [content |-> Str(""),
             options |-> [internal EXCEPT !.contactCard = Str(content.id)]]
      [] branch = "contactList" ->
            [content |-> Str(""),
             options |-> [internal EXCEPT
                            !.contactCardList = Array(SerializedIds(content.items))]]
      [] OTHER -> [content |-> content, options |-> internal]

\* if (internalOptions.sendMediaAsSticker && internalOptions.attachment)
NeedsSticker(internal) ==
    Truthy(internal.sendMediaAsSticker) /\ internal.attachment # NoValue

-----------------------------------------------------------------------------
(* Client.sendMessage: the sticker step and the function evaluated in the  *)
(* page                                                                    *)

\* a call made inside the page
PageCall(name, args) == [name |-> name, args |-> args]

\* where sendMessage goes after formatToWebpSticker, its rejection swallowed
AfterSticker_Swallowed(outcome) == "evaluate"

\* where sendMessage goes after  await Util.formatToWebpSticker(...)
AfterSticker(outcome) == IF outcome = "ok" THEN "evaluate" ELSE "rejected"

\* the calls of the chat branch, with the chat marked seen after the send
ChatCalls_SeenAfter(chatId, message, internal, sendSeen) ==
    << PageCall("ChatStore.find", <<Str(chatId)>>),
       PageCall("WAJS.sendMessage", <<message>>) >>
    \o (IF Truthy(sendSeen)
        THEN << PageCall("functions.sendSeen", <<Str(chatId)>>) >>
        ELSE << >>)

\* the calls of the chat branch: find the chat, mark it seen if (sendSeen),
\* WAJS.sendMessage
ChatCalls(chatId, message, internal, sendSeen) ==
    << PageCall("ChatStore.find", <<Str(chatId)>>) >>
    \o (IF Truthy(sendSeen)
        THEN << PageCall("functions.sendSeen", <<Str(chatId)>>) >>
        ELSE << >>)
    \o << PageCall("WAJS.sendMessage", <<message>>) >>

\* the calls of the status@broadcast branch and the error it throws by itself
StatusCalls(message) ==
    IF InstanceOf(message, "string")
    THEN [calls |-> << PageCall("WPP.status.sendTextStatus", <<message>>),
                      PageCall("MsgStore.get", << >>) >>,
          error |-> ""]
    ELSE IF TestMimetype("image", MimetypeOf(message))
    THEN [calls |-> << PageCall("WPP.status.sendImageStatus", <<message>>),
                      PageCall("MsgStore.get", << >>) >>,
          error |-> ""]
    ELSE IF TestMimetype("video", MimetypeOf(message))
    THEN [calls |-> << PageCall("WPP.status.sendVideoStatus", <<message>>),
                      PageCall("MsgStore.get", << >>) >>,
          error |-> ""]
    ELSE [calls |-> << >>, error |-> "Invalid type for status broadcast"]

\* the function sendMessage evaluates in the page: the calls it makes when
\* none of them fails, and the error it throws by itself
Submit(chatId, message, internal, sendSeen) ==
    IF chatId = "status@broadcast"
    THEN StatusCalls(message)
    ELSE [calls |-> ChatCalls(chatId, message, internal, sendSeen), error |-> ""]

\* a command can be started: the Client is initialized and no command runs
CanStart ==
    /\ Subscribed
    /\ cmd.pc = "idle"

\* the caller has the command's result or its error: the promise is settled
CommandSettled ==
    /\ cmd.pc \in {"resolved", "rejected"}
    /\ cmd' = NoCmd
    /\ remote' = << >>
    /\ UNCHANGED <<initVars, connVars, last_message, call, out, page, group, store>>

\* sendMessage up to its first await
sendMessage ==
    /\ CanStart
    /\ \E chatId \in ChatIds, content \in Contents, opts \in SendOptions :
          LET branch == Branch(content, opts)
              d == Dispatch(branch, content, opts, InternalOptions(opts))
          IN  cmd' = [fn |-> "sendMessage",
                      pc |-> IF NeedsSticker(d.options) THEN "sticker" ELSE "evaluate",
                      chatId |-> chatId,
                      content |-> content,
                      given |-> opts,
                      branch |-> branch,
                      message |-> d.content,
                      options |-> d.options,
                      sendSeen |-> SendSeen(opts),
                      sticker |-> "none",
                      error |-> ""]
    /\ remote' = << >>
    /\ UNCHANGED <<initVars, connVars, last_message, call, out, page, group, store>>

\* Util.formatToWebpSticker resolves with the sticker or rejects
sendMessageSticker ==
    /\ cmd.fn = "sendMessage"
    /\ cmd.pc = "sticker"
    /\ \E outcome \in {"ok", "throws"} :
          cmd' = [cmd EXCEPT
                    !.sticker = outcome,
                    !.pc = AfterSticker(outcome),
                    !.error = IF outcome = "ok" THEN "" ELSE "formatToWebpSticker",
                    !.options.attachment =
                        IF outcome = "ok" THEN MessageMedia(<<"image", "webp">>) ELSE @]
    /\ UNCHANGED <<initVars, connVars, last_message, call, out, page, remote,
                   group, store>>

\* playPage.evaluate runs the function in the page: all its calls succeed
\* (made = Len(calls)) or the call after the first made ones throws
sendMessageEvaluate ==
    /\ cmd.fn = "sendMessage"
    /\ cmd.pc = "evaluate"
    /\ PageAlive
    /\ LET plan == Submit(cmd.chatId, cmd.message, cmd.options, cmd.sendSeen)
       IN  \E made \in 0..Len(plan.calls) :
              /\ remote' = SubSeq(plan.calls, 1,
                                  IF made < Len(plan.calls) THEN made + 1 ELSE made)
              /\ cmd' = [cmd EXCEPT
                            !.pc = IF made = Len(plan.calls) /\ plan.error = ""
                                   THEN "resolved" ELSE "rejected",
                            !.error = IF made < Len(plan.calls)
                                      THEN remote'[made + 1].name
                                      ELSE plan.error]
    /\ UNCHANGED <<initVars, connVars, last_message, call, out, page, group, store>>

-----------------------------------------------------------------------------
(* window.WAJS.compareWwebVersions and window.WAJS.sendChatstate *)

\* a string as the sequence of its characters; a -beta suffix is one element
Chars(cs) == [class |-> "string", chars |-> cs]

\* typeof x === 'string'
IsString(x) == "class" \in DOMAIN x /\ x.class = "string"

\* the operators compareWwebVersions accepts
Operators == {">", ">=", "<", "<=", "="}

\* s.replace(/-beta$/, '')
StripBeta(cs) ==
    IF Len(cs) > 0 /\ cs[Len(cs)] = "-beta" THEN SubSeq(cs, 1, Len(cs) - 1) ELSE cs

\* the while loop: '0' is appended to the shorter string until the lengths
\* are equal
PadZeros(cs, n) == cs \o [i \in 1..(n - Len(cs)) |-> "0"]

\* s.replace(/\./g, '')
RECURSIVE NoDots(_)
NoDots(cs) ==
    IF cs = << >> THEN << >>
    ELSE (IF Head(cs) = "." THEN << >> ELSE <<Head(cs)>>) \o NoDots(Tail(cs))

Digits == <<"0", "1", "2", "3", "4", "5", "6", "7", "8", "9">>

\* the value of a digit
DigitValue(c) == (CHOOSE i \in 1..Len(Digits) : Digits[i] = c) - 1

\* Number(s): the integer a string of digits denotes, 0 for the empty
\* string, NaN for any other string
RECURSIVE DigitsValue(_)
DigitsValue(cs) ==
    IF cs = << >> THEN 0
    ELSE 10 * DigitsValue(SubSeq(cs, 1, Len(cs) - 1)) + DigitValue(cs[Len(cs)])

ToNumber(cs) ==
    IF \A i \in 1..Len(cs) : Includes(Digits, cs[i])
    THEN JsNum(DigitsValue(cs))
    ELSE JsNaN

\* l op r on numbers: every comparison with NaN is false
Compare(l, op, r) ==
    /\ l.kind = "number"
    /\ r.kind = "number"
    /\ CASE op = ">" -> l.val > r.val
         [] op = ">=" -> l.val >= r.val
         [] op = "<" -> l.val < r.val
         [] op = "<=" -> l.val <= r.val
         [] op = "=" -> l.val = r.val
         [] OTHER -> FALSE

\* what a call returns or throws
Returned(value) == [threw |-> FALSE, error |-> "", value |-> value]
Thrown(error) == [threw |-> TRUE, error |-> error, value |-> FALSE]

\* the comparison of two version strings after the validation
CompareVersions(l, op, r) ==
    LET ls == StripBeta(l.chars)
        rs == StripBeta(r.chars)
        n == IF Len(ls) > Len(rs) THEN Len(ls) ELSE Len(rs)
    IN  Compare(ToNumber(NoDots(PadZeros(ls, n))), op,
                ToNumber(NoDots(PadZeros(rs, n))))

\* compareWwebVersions, without the test of the operands' types
CompareWwebVersions_NoOperandTest(l, op, r) ==
    IF op \notin Operators THEN Thrown("CompareWwebVersionsError")
    ELSE IF ~IsString(l) \/ ~IsString(r) THEN Returned(FALSE)
    ELSE Returned(CompareVersions(l, op, r))

\* window.WAJS.compareWwebVersions(lOperand, operator, rOperand)
CompareWwebVersions(l, op, r) ==
    IF op \notin Operators THEN Thrown("CompareWwebVersionsError")
    ELSE IF ~IsString(l) \/ ~IsString(r) THEN Thrown("CompareWwebVersionsError")
    ELSE Returned(CompareVersions(l, op, r))

\* version strings, among them the one addParticipants compares with
Version_2_2335_6 == Chars(<<"2", ".", "2", "3", "3", "5", ".", "6">>)

Versions ==
    {Version_2_2335_6,
     Chars(<<"2", ".", "2", "3", "3", "5", ".", "5">>),
     Chars(<<"2", ".", "2", "3", "3", "5", ".", "6", "-beta">>),
     Chars(<<"2", ".", "2", "4">>),
     Chars(<<"2", ".", "3", "0", "0", "0", ".", "1", "0">>)}

\* window.Debug.VERSION: a version before 2.2335.6 or a later one
DebugVersions ==
    {Chars(<<"2", ".", "2", "3", "3", "5", ".", "5">>),
     Chars(<<"2", ".", "3", "0", "0", "0", ".", "1", "0">>)}

\* the operands compareWwebVersions is called with
Operands == Versions \cup {JsNum(2), JsUndefined}

\* the calls of sendChatstate, or the string it throws
ChatstateCalls(state, chatId) ==
    CASE state = "typing" ->
            [calls |-> << PageCall("WPP.chat.markIsComposing", <<chatId>>) >>,
             error |-> ""]
      [] state = "recording" ->
            [calls |-> << PageCall("WPP.chat.markIsRecording", <<chatId>>) >>,
             error |-> ""]
      [] state = "stop" ->
            [calls |-> << PageCall("WPP.chat.markIsPaused", <<chatId>>) >>,
             error |-> ""]
      [] OTHER -> [calls |-> << >>, error |-> "Invalid chatstate"]

\* the states sendChatstate is called with
Chatstates == {"typing", "recording", "stop", "paused", "available"}

\* a call of compareWwebVersions inside the page
compareWwebVersions ==
    /\ CanStart
    /\ \E l \in Operands, r \in Operands, op \in Operators \cup {"==", "!="} :
          LET res == CompareWwebVersions(l, op, r)
          IN  cmd' = [fn |-> "compareWwebVersions",
                      pc |-> IF res.threw THEN "rejected" ELSE "resolved",
                      lOperand |-> l, operator |-> op, rOperand |-> r,
                      result |-> res.value, error |-> res.error]
    /\ remote' = << >>
    /\ UNCHANGED <<initVars, connVars, last_message, call, out, page, group, store>>

\* a call of sendChatstate inside the page; all its calls succeed
\* (made = Len(calls)) or the call after the first made ones throws
sendChatstate ==
    /\ CanStart
    /\ \E state \in Chatstates, chatId \in ChatIds :
          LET plan == ChatstateCalls(state, chatId)
          IN  \E made \in 0..Len(plan.calls) :
                /\ remote' = SubSeq(plan.calls, 1,
                                    IF made < Len(plan.calls) THEN made + 1 ELSE made)
                /\ cmd' = [fn |-> "sendChatstate",
                           pc |-> IF made = Len(plan.calls) /\ plan.error = ""
                                  THEN "resolved" ELSE "rejected",
                           state |-> state, chatId |-> chatId,
                           error |-> IF made < Len(plan.calls)
                                     THEN remote'[made + 1].name
                                     ELSE plan.error]
    /\ UNCHANGED <<initVars, connVars, last_message, call, out, page, group, store>>

-----------------------------------------------------------------------------
(* GroupChat.addParticipants *)

\* the ids of two participants, "1@c.us" and "2@c.us"
ParticipantIds ==
    {Chars(<<"1", "@", "c", ".", "u", "s">>), Chars(<<"2", "@", "c", ".", "u", "s">>)}

\* the sequences of at most n elements of S
SeqsUpTo(S, n) == UNION { [1..k -> S] : k \in 0..n }

\* what addParticipants is called with: one id or an array of ids
ParticipantArgs ==
    ParticipantIds \cup { Array(ids) : ids \in SeqsUpTo(ParticipantIds, MaxParticipants) }

\* for (let participant of participantIds): the values participant takes
\* when the loop runs to its end
Iterated(participantIds) ==
    IF InstanceOf(participantIds, "string")
    THEN [i \in 1..Len(participantIds.chars) |-> Chars(<<participantIds.chars[i]>>)]
    ELSE participantIds.items

\* result[participant] of WPP.group.addParticipants(groupId, [participant])
Rpc(code, message) ==
    [code |-> code, message |-> message, isInviteV4Sent |-> "undefined"]

\* the results the page can answer with
RpcResults ==
    {Rpc(200, <<"OK">>),
     Rpc(403, <<"ParticipantRequestCodeCanBeSent">>),
     Rpc(403, <<"NotAuthorized">>),
     Rpc(409, <<"AlreadyExists">>)}

\* const { autoSendInviteV4 = true } = options
AutoSendInviteV4(opts) ==
    IF opts.autoSendInviteV4 = "undefined" THEN "true" ELSE opts.autoSendInviteV4

\* the test of the invite branch, taken for every result with the code 403
InviteBranch_Any403(rpc, auto) == rpc.code = 403

\* if (autoSendInviteV4 && rpcResult.code === 403)
InviteBranch(rpc, auto) == Truthy(auto) /\ rpc.code = 403

\* the invitation is sent: the message says it can be, and the chat of the
\* participant is found
InviteSent(rpc, userChat) ==
    Includes(rpc.message, "ParticipantRequestCodeCanBeSent") /\ userChat

\* the calls of one turn of the loop for participant, answered with rpc
TurnCalls(participant, rpc, auto, userChat) ==
    << PageCall("WPP.group.addParticipants", <<participant>>) >>
    \o (IF ~InviteBranch(rpc, auto) THEN << >>
        ELSE << PageCall("ContactStore.gadd", <<participant>>) >>
             \o (IF ~Includes(rpc.message, "ParticipantRequestCodeCanBeSent")
                 THEN << >>
                 ELSE << PageCall("ChatStore.find", <<participant>>) >>
                      \o (IF ~userChat THEN << >>
                          ELSE << PageCall("WAJS.getProfilePicThumbToBase64", << >>),
                                  PageCall("ChatModel.sendGroupInviteMessage",
                                           <<participant>>) >>)))

\* what ChatModel.sendGroupInviteMessage can answer with
InviteResponses ==
    {Str("OK"), Str("ERROR"),
     [class |-> "Object", messageSendResult |-> "OK"],
     [class |-> "Object", messageSendResult |-> "ERROR"]}

\* compareWwebVersions(window.Debug.VERSION, '<', '2.2335.6')
\*     ? res === 'OK' : res.messageSendResult === 'OK'
InviteConfirmed(res, version) ==
    IF CompareWwebVersions(version, "<", Version_2_2335_6).value
    THEN InstanceOf(res, "string") /\ res.value = "OK"
    ELSE InstanceOf(res, "Object") /\ res.messageSendResult = "OK"

\* the sleep option of the batch operations, which the documentation
\* describes: absent, a number, or an array [low, high]
SleepOptions ==
    {NoValue, JsNum(300), Array(<<250, 500>>), Array(<<250, 300>>)}

\* rpcResult as the turn leaves it: isInviteV4Sent set in the invite branch
TurnResult(rpc, auto, userChat, sent) ==
    IF InviteBranch(rpc, auto)
    THEN [rpc EXCEPT !.isInviteV4Sent =
              IF InviteSent(rpc, userChat) /\ sent THEN "true" ELSE "false"]
    ELSE rpc

\* the function addParticipants evaluates in the page: the group is found,
\* then the loop over participantIds, whose body ends with  return rpcResult,
\* so that only the first turn runs; without a turn the result is undefined
AddParticipantsRun(participantIds, auto, rpc, userChat, sent) ==
    LET turns == Iterated(participantIds)
    IN  IF Len(turns) = 0
        THEN [calls |-> << PageCall("ChatStore.find", <<"group">>) >>,
              result |-> NoValue]
        ELSE [calls |-> << PageCall("ChatStore.find", <<"group">>) >>
                        \o TurnCalls(turns[1], rpc, auto, userChat),
              result |-> TurnResult(rpc, auto, userChat, sent)]

\* GroupChat.addParticipants: playPage.evaluate of that function; all its
\* calls succeed (made = Len(calls)) or the call after the first made throws
addParticipants ==
    /\ CanStart
    /\ \E participantIds \in ParticipantArgs,
          opts \in [autoSendInviteV4 : Tri, sleep : SleepOptions],
          rpc \in RpcResults, userChat \in BOOLEAN,
          res \in InviteResponses, version \in DebugVersions :
          LET run == AddParticipantsRun(participantIds, AutoSendInviteV4(opts),
                                        rpc, userChat,
                                        InviteConfirmed(res, version))
          IN  \E made \in 0..Len(run.calls) :
                /\ remote' = SubSeq(run.calls, 1,
                                    IF made < Len(run.calls) THEN made + 1 ELSE made)
                /\ cmd' = [fn |-> "addParticipants",
                           pc |-> IF made = Len(run.calls)
                                  THEN "resolved" ELSE "rejected",
                           participantIds |-> participantIds,
                           given |-> opts,
                           rpc |-> rpc,
                           inviteResult |-> res,
                           version |-> version,
                           result |-> IF made = Len(run.calls)
                                      THEN run.result ELSE NoValue]
    /\ UNCHANGED <<initVars, connVars, last_message, call, out, page, group, store>>

-----------------------------------------------------------------------------
(* Client.approveGroupMembershipRequests and rejectGroupMembershipRequests *)

\* options.requesterIds: absent, or an array of requester ids
RequesterArgs ==
    {NoValue} \cup { Array(ids) : ids \in SeqsUpTo(ParticipantIds, MaxParticipants) }

\* const { requesterIds = null } = options
RequesterIds(opts) ==
    IF opts.requesterIds = NoValue THEN [class |-> "null"] ELSE opts.requesterIds

\* the function both methods evaluate in the page: one call of
\* WPP.group.approve or WPP.group.reject with all the requester ids
MembershipCalls(entry, groupId, opts) ==
    << PageCall(entry, <<Str(groupId), RequesterIds(opts)>>) >>

\* either method; the call in the page succeeds or throws
MembershipRequests(fn, entry) ==
    /\ CanStart
    /\ \E opts \in [requesterIds : RequesterArgs, sleep : SleepOptions],
          ok \in BOOLEAN :
          /\ remote' = MembershipCalls(entry, "g@g.us", opts)
          /\ cmd' = [fn |-> fn,
                     pc |-> IF ok THEN "resolved" ELSE "rejected",
                     given |-> opts,
                     error |-> IF ok THEN "" ELSE entry]
    /\ UNCHANGED <<initVars, connVars, last_message, call, out, page, group, store>>

approveGroupMembershipRequests ==
    MembershipRequests("approveGroupMembershipRequests", "WPP.group.approve")

rejectGroupMembershipRequests ==
    MembershipRequests("rejectGroupMembershipRequests", "WPP.group.reject")

-----------------------------------------------------------------------------
(* GroupChat.setSubject, setDescription, setMessagesAdminsOnly,            *)
(* setInfoAdminsOnly                                                       *)

\* how a call in the page ends
RemoteOutcomes == {"ok", "ServerStatusCodeError", "Error"}

\* the try / catch around the call: true, false for a ServerStatusCodeError,
\* any other error thrown again
TrySetting(outcome) ==
    CASE outcome = "ok" -> Returned(TRUE)
      [] outcome = "ServerStatusCodeError" -> Returned(FALSE)
      [] OTHER -> Thrown(outcome)

\* the local field after the call, assigned whatever the call answered
FieldAfter_Always(tried, old, new) == new

\* the local field after the call:  if (!success) return false;  comes
\* before the assignment
FieldAfter(tried, old, new) ==
    IF ~tried.threw /\ tried.value THEN new ELSE old

\* adminsOnly = true  as the default of the parameter
AdminsOnly(arg) == IF arg = "undefined" THEN "true" ELSE arg

\* adminsOnly ? 1 : 0
Bit(flag) == IF Truthy(flag) THEN 1 ELSE 0

\* one of the four methods: the call entry(chatId, ...args) in the page, then
\* the local field set to value when the call succeeded
GroupSetting(fn, entry, args, field, value) ==
    /\ CanStart
    /\ \E outcome \in RemoteOutcomes :
          LET tried == TrySetting(outcome)
          IN  /\ remote' = << PageCall(entry, <<Str(group.id)>> \o args) >>
              /\ group' = [group EXCEPT ![field] = FieldAfter(tried, @, value)]
              /\ cmd' = [fn |-> fn,
                         pc |-> IF tried.threw THEN "rejected" ELSE "resolved",
                         outcome |-> outcome,
                         before |-> group,
                         field |-> field,
                         value |-> value,
                         result |-> tried.value,
                         error |-> tried.error]
    /\ UNCHANGED <<initVars, connVars, last_message, call, out, page, store>>

\* the subjects and descriptions the methods are called with
Texts == {"Old", "New"}

setSubject ==
    \E subject \in Texts :
        GroupSetting("setSubject", "WPP.group.setSubject", <<Str(subject)>>,
                     "name", subject)

setDescription ==
    \E description \in Texts :
        GroupSetting("setDescription", "WPP.group.setDescription",
                     <<Str(description)>>, "desc", description)

setMessagesAdminsOnly ==
    \E arg \in Tri :
        GroupSetting("setMessagesAdminsOnly", "WPP.group.setProperty",
                     <<Str("announcement"), JsNum(Bit(AdminsOnly(arg)))>>,
                     "announce", AdminsOnly(arg))

setInfoAdminsOnly ==
    \E arg \in Tri :
        GroupSetting("setInfoAdminsOnly", "WPP.group.setProperty",
                     <<Str("restrict"), JsNum(Bit(AdminsOnly(arg)))>>,
                     "restrict", AdminsOnly(arg))

-----------------------------------------------------------------------------
(* GroupChat.setPicture and window.WAJS.setPicture *)

\* a parameter  ({ key, ... }) =>  read from the argument object
Destructured(obj, key) == IF key \in DOMAIN obj THEN obj[key] ELSE NoValue

\* how WPP.whatsapp.functions.sendSetPicture can end: its promise resolves or
\* rejects, or the call itself throws
PictureOutcomes ==
    {"ok", "rejects ServerStatusCodeError", "rejects Error",
     "throws ServerStatusCodeError", "throws Error"}

\* try { return sendSetPicture(...) } catch (err) { ... }: the promise is
\* returned without await, so the catch sees only what the call throws
TryPicture(outcome) ==
    CASE outcome = "ok" -> Returned(TRUE)
      [] outcome = "throws ServerStatusCodeError" -> Returned(FALSE)
      [] outcome = "rejects ServerStatusCodeError" -> Thrown("ServerStatusCodeError")
      [] OTHER -> Thrown("Error")

\* window.WAJS.setPicture(chatid, media): the two images, the wid, the call;
\* WidFactory.createWid may throw for a chatid that is no id
PictureCalls(chatid, widOk) ==
    << PageCall("WAJS.cropAndResizeImage", <<JsNum(96)>>),
       PageCall("WAJS.cropAndResizeImage", <<JsNum(640)>>),
       PageCall("WidFactory.createWid", <<chatid>>) >>
    \o (IF widOk
        THEN << PageCall("functions.sendSetPicture", <<chatid>>) >>
        ELSE << >>)

\* GroupChat.setPicture: the function in the page is handed
\* { chatId, media }  and reads  { chatid, media }
setPicture ==
    /\ CanStart
    /\ \E outcome \in PictureOutcomes, widOk \in BOOLEAN :
          LET arg == [chatId |-> Str(group.id),
                      media |-> MessageMedia(<<"image", "png">>)]
              chatid == Destructured(arg, "chatid")
              tried == IF widOk THEN TryPicture(outcome) ELSE Thrown("Error")
          IN  /\ chatid = NoValue \/ widOk   \* createWid accepts an id
              /\ remote' = PictureCalls(chatid, widOk)
              /\ cmd' = [fn |-> "setPicture",
                         pc |-> IF tried.threw THEN "rejected" ELSE "resolved",
                         outcome |-> IF widOk THEN outcome ELSE "createWid throws",
                         result |-> tried.value,
                         error |-> tried.error]
    /\ UNCHANGED <<initVars, connVars, last_message, call, out, page, group, store>>

-----------------------------------------------------------------------------
(* Client.createGroup *)

\* !Array.isArray(participants) && (participants = [participants])
AsArray(participants) ==
    IF InstanceOf(participants, "Array") THEN participants.items
    ELSE <<participants>>

\* participantWids: the participants WPP.contact.queryExists knows
ParticipantWids(ids, exists) == SelectSeq(ids, LAMBDA p : exists[p])

\* failedParticipants: the others
FailedParticipants(ids, exists) == SelectSeq(ids, LAMBDA p : ~exists[p])

\* const statusCode = participant.error ?? 200
StatusCode(error) == IF error = 0 THEN 200 ELSE error

\* an entry of participantData
ParticipantData(statusCode, isInviteV4Sent) ==
    [statusCode |-> statusCode, isInviteV4Sent |-> isInviteV4Sent]

\* the first participant of the created group for which the invite branch
\* (autoSendInviteV4 && statusCode === 403) is entered, 0 when there is none
FirstInvite(wids, errors, auto) ==
    IF \E i \in 1..Len(wids) : Truthy(auto) /\ StatusCode(errors[wids[i]]) = 403
    THEN CHOOSE i \in 1..Len(wids) :
            /\ Truthy(auto) /\ StatusCode(errors[wids[i]]) = 403
            /\ \A j \in 1..(i - 1) : ~(Truthy(auto) /\ StatusCode(errors[wids[j]]) = 403)
    ELSE 0

\* the function createGroup evaluates in the page. The invite branch starts
\* with  await Util.sleep(2500): Util is a variable of the Node module and is
\* not defined in the page, so the branch throws a ReferenceError
CreateGroupRun(title, ids, auto, exists, created, errors) ==
    LET wids == ParticipantWids(ids, exists)
        failed == FailedParticipants(ids, exists)
        queries == [i \in 1..Len(ids) |-> PageCall("WPP.contact.queryExists", <<ids[i]>>)]
        create == PageCall("functions.sendCreateGroup", wids)
        keys == {wids[i] : i \in 1..Len(wids)} \cup {failed[i] : i \in 1..Len(failed)}
        data == [k \in keys |->
                    IF \E i \in 1..Len(failed) : failed[i] = k
                    THEN ParticipantData(404, FALSE)
                    ELSE ParticipantData(StatusCode(errors[k]), FALSE)]
    IN  IF ~created
        THEN [calls |-> Append(queries, create),
              result |-> Returned(Str("CreateGroupError: An unknown error occupied while creating a group"))]
        ELSE IF FirstInvite(wids, errors, auto) # 0
        THEN [calls |-> Append(queries, create),
              result |-> Thrown("ReferenceError")]
        ELSE [calls |-> Append(queries, create),
              result |-> Returned([class |-> "Object", title |-> title,
                                   gid |-> "new@g.us", participants |-> data])]

\* Client.createGroup(title, participants, options)
createGroup ==
    /\ CanStart
    /\ \E participants \in ParticipantArgs,
          opts \in [autoSendInviteV4 : Tri],
          exists \in [ParticipantIds -> BOOLEAN],
          created \in BOOLEAN,
          errors \in [ParticipantIds -> {0, 403}] :
          LET run == CreateGroupRun("title", AsArray(participants),
                                    AutoSendInviteV4(opts), exists, created, errors)
          IN  /\ remote' = run.calls
              /\ cmd' = [fn |-> "createGroup",
                         pc |-> IF run.result.threw THEN "rejected" ELSE "resolved",
                         participants |-> participants,
                         given |-> opts,
                         exists |-> exists,
                         created |-> created,
                         result |-> run.result.value,
                         error |-> run.result.error]
    /\ UNCHANGED <<initVars, connVars, last_message, call, out, page, group, store>>

-----------------------------------------------------------------------------
(* new Message(client, data), ChatFactory.create and ContactFactory.create *)
(* on snapshots whose fields may be absent: a snapshot is a function from   *)
(* the names of the fields it has to their values                          *)

\* data.field, undefined for a field the snapshot has not
Field(data, f) == IF f \in DOMAIN data THEN data[f] ELSE Undefined

\* the values that are false as a condition
Falsy == {Undefined, "null", "", "0", "false"}

\* a snapshot without the fields in fs
Without(data, fs) == [f \in DOMAIN data \ fs |-> data[f]]

PollFields ==
    {"pollName", "pollOptions", "pollSelectableOptionsCount", "pollInvalidated",
     "isSentCagPollCreation"}

\* the poll fields of a snapshot: none of them, or all with one or with
\* several selectable options
PollParts ==
    { << >> } \cup
    { [pollName |-> "poll", pollOptions |-> "options",
       pollSelectableOptionsCount |-> n, pollInvalidated |-> "false",
       isSentCagPollCreation |-> "false"] : n \in {"0", "1"} }

\* mediaKey and directPath: absent, null or present
MediaParts ==
    { k @@ p : k \in { << >>, [mediaKey |-> "null"], [mediaKey |-> "key"] },
               p \in { << >>, [directPath |-> "null"], [directPath |-> "/path"] } }

\* raw message snapshots
RawMsgs ==
    { [type |-> t, body |-> "body"] @@ m @@ p @@ c :
        t \in {"chat", "image", "poll_creation"}, m \in MediaParts,
        p \in PollParts, c \in { << >>, [caption |-> "caption"] } }

\* MessageTypes.POLL_CREATION
POLL_CREATION == "poll_creation"

\* hasMedia, true when either field is there
MessageHasMedia_Either(data) ==
    Field(data, "mediaKey") \notin Falsy \/ Field(data, "directPath") \notin Falsy

\* this.hasMedia = Boolean(data.mediaKey && data.directPath)
MessageHasMedia(data) ==
    Field(data, "mediaKey") \notin Falsy /\ Field(data, "directPath") \notin Falsy

\* a || b
Or(a, b) == IF a \notin Falsy THEN a ELSE b

\* this.body = this.hasMedia ? data.caption || ''
\*                           : data.body || data.pollName || ''
MessageBody(data) ==
    IF MessageHasMedia(data)
    THEN Or(Field(data, "caption"), "")
    ELSE Or(Or(Field(data, "body"), Field(data, "pollName")), "")

\* the snapshot after _patch, with the poll fields deleted for every type
RawAfterPatch_AnyType(data) == Without(data, PollFields)

\* the snapshot after _patch: for a poll creation the poll fields are
\* deleted from this._data, which is the object that was passed in
RawAfterPatch(data) ==
    IF data.type = POLL_CREATION THEN Without(data, PollFields) ELSE data

\* the fields _patch sets on the Message
PatchedMessage(data) ==
    [class |-> "Message",
     mediaKey |-> Field(data, "mediaKey"),
     hasMedia |-> MessageHasMedia(data),
     body |-> MessageBody(data),
     type |-> data.type,
     poll |-> IF data.type = POLL_CREATION
              THEN [f \in PollFields \ {"pollSelectableOptionsCount"} |-> Field(data, f)]
              ELSE << >>,
     allowMultipleAnswers |->
         data.type = POLL_CREATION
         /\ Field(data, "pollSelectableOptionsCount") \in Falsy]

\* new Message(client, data) and the rawData getter: _data is the object
\* that was passed in, so rawData and the caller's snapshot are one object
newMessage ==
    /\ cmd.pc = "idle"
    /\ \E data \in RawMsgs :
          cmd' = [fn |-> "new Message", pc |-> "resolved",
                  data |-> data,
                  message |-> PatchedMessage(data),
                  rawData |-> RawAfterPatch(data),
                  snapshot |-> RawAfterPatch(data)]
    /\ remote' = << >>
    /\ UNCHANGED <<initVars, connVars, last_message, call, out, page, group, store>>

\* raw chat and contact snapshots
RawChats ==
    { [id |-> "c"] @@ g @@ md :
        g \in { << >>, [isGroup |-> "true"], [isGroup |-> "false"] },
        md \in { << >>, [groupMetadata |-> "metadata"] } }

RawContacts ==
    { [id |-> "c"] @@ b @@ bp :
        b \in { << >>, [isBusiness |-> "true"], [isBusiness |-> "false"] },
        bp \in { << >>, [businessProfile |-> "profile"] } }

\* ChatFactory.create, deciding by the presence of the flag
ChatFactoryCreate_IfPresent(data) ==
    IF "isGroup" \in DOMAIN data THEN "GroupChat" ELSE "PrivateChat"

\* ChatFactory.create: the class of the entity it builds
ChatFactoryCreate(data) ==
    IF Field(data, "isGroup") \notin Falsy THEN "GroupChat" ELSE "PrivateChat"

\* ContactFactory.create: the class of the entity it builds
ContactFactoryCreate(data) ==
    IF Field(data, "isBusiness") \notin Falsy THEN "BusinessContact"
    ELSE "PrivateContact"

\* a call of ChatFactory.create or of ContactFactory.create
factoryCreate ==
    /\ cmd.pc = "idle"
    /\ \/ \E data \in RawChats :
             cmd' = [fn |-> "ChatFactory.create", pc |-> "resolved",
                     data |-> data, result |-> ChatFactoryCreate(data)]
       \/ \E data \in RawContacts :
             cmd' = [fn |-> "ContactFactory.create", pc |-> "resolved",
                     data |-> data, result |-> ContactFactoryCreate(data)]
    /\ remote' = << >>
    /\ UNCHANGED <<initVars, connVars, last_message, call, out, page, group, store>>

-----------------------------------------------------------------------------
(* The other handlers initialize exposes to the page: removed and          *)
(* acknowledged messages, uploaded media, calls, reactions and chats       *)

MESSAGE_REVOKED_ME == "message_revoke_me"
MESSAGE_ACK == "message_ack"
MEDIA_UPLOADED == "media_uploaded"
INCOMING_CALL == "incoming_call"
UNREAD_COUNT == "unread_count"
MESSAGE_REACTION == "message_reaction"
CHAT_REMOVED == "chat_removed"
CHAT_ARCHIVED == "chat_archived"

\* this.playPage.evaluate(fn, ...args), fn named by what it runs
Evaluate(name, args) == [op |-> "evaluate", name |-> name, args |-> args]

\* onRemoveMessageEvent(msg): nothing unless msg.isNewMsg
RemoveMessageEffects(msg) ==
    IF ~msg.isNewMsg THEN << >>
    ELSE << Emit(MESSAGE_REVOKED_ME, <<Message(msg)>>) >>

\* onMessageAckEvent(msg, ack)
MessageAckEffects(msg, ack) == << Emit(MESSAGE_ACK, <<Message(msg), ack>>) >>

\* onMessageMediaUploadedEvent(msg)
MessageMediaUploadedEffects(msg) == << Emit(MEDIA_UPLOADED, <<Message(msg)>>) >>

\* new Call(client, data), for onIncomingCall
IncomingCall(data) == [class |-> "Call", data |-> data]

\* onIncomingCall(call)
IncomingCallEffects(data) == << Emit(INCOMING_CALL, <<IncomingCall(data)>>) >>

\* new Reaction(client, data)
Reaction(data) == [class |-> "Reaction", data |-> data]

\* onReaction(reactions): one event for each, in their order
ReactionEffects(reactions) ==
    [i \in 1..Len(reactions) |-> Emit(MESSAGE_REACTION, <<Reaction(reactions[i])>>)]

\* what the page has for a chat id: the chat model, or the evaluate rejects
ChatModels(chatId) ==
    { [id |-> chatId] @@ g : g \in { << >>, [isGroup |-> "true"], [isGroup |-> "false"] } }

ChatLookups(chatId) == ChatModels(chatId) \cup { [rejected |-> TRUE] }

\* the Chat that ChatFactory.create builds from a chat model
Chat(model) == [class |-> ChatFactoryCreate(model), id |-> model.id]

\* a chat handler that emits from its argument, with no lookup
ChatEffects_NoLookup(event, chat, found, rest) ==
    << Emit(event, <<Chat(chat)>> \o rest) >>

\* a chat handler:  const chat = await this.getChatById(id), one evaluate
\* of WPP.chat.get and WAJS.getChatModel, and then the emit with that Chat
ChatEffects(event, chat, found, rest) ==
    << Evaluate("getChatById", <<chat.id>>) >>
    \o (IF "rejected" \in DOMAIN found THEN << >>
        ELSE << Emit(event, <<Chat(found)>> \o rest) >>)

\* messages as onRemoveMessageEvent gets them
RemovedMsgs == { m @@ [isNewMsg |-> n] : m \in PlainMsgs, n \in BOOLEAN }

Acks == {-1, 1, 3}

Calls ==
    { [id |-> "call", peerJid |-> "a@c.us", isVideo |-> v] : v \in BOOLEAN }

Reactions == { [id |-> i, reaction |-> "+"] : i \in {"r1", "r2"} }

ReactionBatches ==
    { << >> } \cup { <<r>> : r \in Reactions }
    \cup { <<r, s>> : r \in Reactions, s \in Reactions }

\* chats as the page hands them to the chat handlers
ChatArgs == { [id |-> i] : i \in ChatIds }

onRemoveMessageEvent ==
    /\ Subscribed
    /\ \E msg \in RemovedMsgs :
          /\ call' = Call("onRemoveMessageEvent", <<msg>>)
          /\ out' = RemoveMessageEffects(msg)
    /\ UNCHANGED <<initVars, connVars, last_message, page, cmdVars>>

onMessageAckEvent ==
    /\ Subscribed
    /\ \E msg \in PlainMsgs, ack \in Acks :
          /\ call' = Call("onMessageAckEvent", <<msg, ack>>)
          /\ out' = MessageAckEffects(msg, ack)
    /\ UNCHANGED <<initVars, connVars, last_message, page, cmdVars>>

onMessageMediaUploadedEvent ==
    /\ Subscribed
    /\ \E msg \in PlainMsgs :
          /\ call' = Call("onMessageMediaUploadedEvent", <<msg>>)
          /\ out' = MessageMediaUploadedEffects(msg)
    /\ UNCHANGED <<initVars, connVars, last_message, page, cmdVars>>

onIncomingCall ==
    /\ Subscribed
    /\ \E data \in Calls :
          /\ call' = Call("onIncomingCall", <<data>>)
          /\ out' = IncomingCallEffects(data)
    /\ UNCHANGED <<initVars, connVars, last_message, page, cmdVars>>

onReaction ==
    /\ Subscribed
    /\ \E reactions \in ReactionBatches :
          /\ call' = Call("onReaction", <<reactions>>)
          /\ out' = ReactionEffects(reactions)
    /\ UNCHANGED <<initVars, connVars, last_message, page, cmdVars>>

onChatUnreadCountEvent ==
    /\ Subscribed
    /\ \E data \in ChatArgs : \E found \in ChatLookups(data.id) :
          /\ call' = Call("onChatUnreadCountEvent", <<data>>)
          /\ out' = ChatEffects(UNREAD_COUNT, data, found, << >>)
    /\ UNCHANGED <<initVars, connVars, last_message, page, cmdVars>>

onRemoveChatEvent ==
    /\ Subscribed
    /\ \E chat \in ChatArgs : \E found \in ChatLookups(chat.id) :
          /\ call' = Call("onRemoveChatEvent", <<chat>>)
          /\ out' = ChatEffects(CHAT_REMOVED, chat, found, << >>)
    /\ UNCHANGED <<initVars, connVars, last_message, page, cmdVars>>

onArchiveChatEvent ==
    /\ Subscribed
    /\ \E chat \in ChatArgs, currState \in BOOLEAN :
       \E found \in ChatLookups(chat.id) :
          /\ call' = Call("onArchiveChatEvent", <<chat, currState, ~currState>>)
          /\ out' = ChatEffects(CHAT_ARCHIVED, chat, found, <<currState, ~currState>>)
    /\ UNCHANGED <<initVars, connVars, last_message, page, cmdVars>>

-----------------------------------------------------------------------------
(* getPage(options), which creates the browser and the page of a Client *)

\* the options getPage reads: browserWS, sessionName, sessionPath, browser
GetPageOptions ==
    [browserWS : {NoValue, Str("ws://host")},
     sessionName : {NoValue, Str(""), Str("session"), [class |-> "number"]},
     sessionPath : {NoValue, Str("/auth")},
     browser : {NoValue, Str("firefox"), Str("webkit")}]

\* a value counts as true in a condition
IsTruthy(v) == v # NoValue /\ v # Str("")

\* options.browser || 'chromium'
BrowserName(opts) == IF IsTruthy(opts.browser) THEN opts.browser.value ELSE "chromium"

\* if (options.browserWS)
UsesBrowserWS(opts) == IsTruthy(opts.browserWS)

\* if (options.sessionName && typeof options.sessionName === 'string')
UsesSession(opts) == IsTruthy(opts.sessionName) /\ opts.sessionName.class = "string"

\* path.join(sessionPath, sessionName)
DirPath(opts) ==
    << IF IsTruthy(opts.sessionPath) THEN opts.sessionPath.value ELSE "./.wajs_auth/",
       opts.sessionName.value >>

\* the calls getPage makes to create browsers and pages, in their order;
\* pages is browser.pages().length of the persistent context
GetPageCalls(opts, pages) ==
    (IF UsesBrowserWS(opts)
     THEN << PageCall("connect", <<BrowserName(opts), opts.browserWS.value>>),
             PageCall("newPage", <<"connect">>) >>
     ELSE << >>)
    \o (IF UsesSession(opts)
        THEN << PageCall("launchPersistentContext", <<BrowserName(opts), DirPath(opts)>>) >>
             \o (IF pages > 0 THEN << >>
                 ELSE << PageCall("newPage", <<"launchPersistentContext">>) >>)
        ELSE << PageCall("launch", <<BrowserName(opts)>>),
                PageCall("newPage", <<"launch">>) >>)

\* the browser getPage goes on with: the one assigned last
GetPageBrowser(opts) ==
    IF UsesSession(opts) THEN "launchPersistentContext" ELSE "launch"

\* pages a persistent context opens with
ContextPages == 0..2

\* a call of getPage
getPage ==
    /\ cmd.pc = "idle"
    /\ \E opts \in GetPageOptions, pages \in ContextPages :
          cmd' = [fn |-> "getPage", pc |-> "resolved", options |-> opts,
                  pages |-> pages,
                  calls |-> GetPageCalls(opts, pages),
                  browser |-> GetPageBrowser(opts)]
    /\ remote' = << >>
    /\ UNCHANGED <<initVars, connVars, last_message, call, out, page, group, store>>

-----------------------------------------------------------------------------
(* The subscriptions to the page's messages that initialize installs:      *)
(* chat.new_message and the change events of the MsgStore                  *)

\* window.WAJS.getMessageModel(msg) of a stored message
StoredModel(id, m) ==
    Snapshot(m.type, Undefined, [id |-> id, fromMe |-> m.fromMe], Undefined,
             "b@c.us", << >>, << >>)

\* the chat.new_message listener: nothing unless msg.isNewMsg; for a
\* ciphertext msg.once('change:type', ...) is set and the argument of
\* EmitEvent, window.WWebJS.getMessageModel(msg), throws, window.WWebJS
\* being assigned nowhere, so that nothing is emitted; any other message
\* goes to onAddMessageEvent
NewMessageEffects(msg, isNewMsg) ==
    IF ~isNewMsg THEN << >>
    ELSE IF msg.type = "ciphertext" THEN << >>
    ELSE AddMessageEffects(msg)

\* whether the chat.new_message listener sets msg.once('change:type', ...)
Deferred(type, isNewMsg) == isNewMsg /\ type = "ciphertext"

\* the listeners of a change of type, in the order they run: the one of
\* msg.once, the MsgStore's change:type and the MsgStore's change
TypeChangedEffects(msg, deferred, last) ==
    (IF deferred THEN AddMessageEffects(msg) ELSE << >>)
    \o ChangeMessageTypeEffects(msg, last)
    \o ChangeMessageEffects(msg)

\* the listeners of a change of the body or the caption: the MsgStore's
\* 'change:body change:caption', which calls onAddMessageEvent, and change
BodyChangedEffects(msg) == AddMessageEffects(msg) \o ChangeMessageEffects(msg)

\* the listeners of a change of the ack: change:ack and change
AckChangedEffects(msg, ack) == MessageAckEffects(msg, ack) \o ChangeMessageEffects(msg)

\* the types a message of the store takes after the type given
NextTypes(type) ==
    IF type = "ciphertext" THEN {"chat"}
    ELSE IF type = "chat" THEN {"revoked"}
    ELSE {}

\* a message arrives in the store
StoreNewMessage ==
    /\ Subscribed
    /\ \E id \in (1..MaxStored) \ DOMAIN store, type \in {"chat", "ciphertext"},
          fromMe \in BOOLEAN, isNewMsg \in BOOLEAN :
          LET m == [type |-> type, fromMe |-> fromMe,
                    deferred |-> Deferred(type, isNewMsg), creates |-> 0,
                    ciphertexts |-> 0, edits |-> 0]
              effs == NewMessageEffects(StoredModel(id, m), isNewMsg)
          IN  /\ call' = Call("chat.new_message", <<StoredModel(id, m), isNewMsg>>)
              /\ out' = effs
              /\ store' = [i \in DOMAIN store \cup {id} |->
                             IF i = id
                             THEN [m EXCEPT !.creates = Count(effs, MESSAGE_CREATE),
                                            !.ciphertexts = Count(effs, "message_ciphertext")]
                             ELSE store[i]]
    /\ UNCHANGED <<initVars, connVars, last_message, page, cmd, remote, group>>

\* a stored message changes its type
StoreTypeChanged ==
    /\ Subscribed
    /\ \E id \in DOMAIN store : \E type \in NextTypes(store[id].type) :
          LET m == [store[id] EXCEPT !.type = type]
              effs == TypeChangedEffects(StoredModel(id, m), store[id].deferred,
                                         last_message)
          IN  /\ call' = Call("change:type", <<StoredModel(id, m)>>)
              /\ out' = effs
              /\ last_message' = ChangeMessageSlot(StoredModel(id, m), last_message)
              /\ store' = [store EXCEPT ![id] =
                             [m EXCEPT !.deferred = FALSE,
                                       !.creates = @ + Count(effs, MESSAGE_CREATE)]]
    /\ UNCHANGED <<initVars, connVars, page, cmd, remote, group>>

\* the body or the caption of a stored message changes
StoreBodyChanged ==
    /\ Subscribed
    /\ \E id \in DOMAIN store :
          LET m == store[id]
              effs == BodyChangedEffects(StoredModel(id, m))
          IN  /\ m.type = "chat"
              /\ m.edits < MaxEdits
              /\ call' = Call("change:body", <<StoredModel(id, m)>>)
              /\ out' = effs
              /\ last_message' = ChangeMessageSlot(StoredModel(id, m), last_message)
              /\ store' = [store EXCEPT ![id] =
                             [m EXCEPT !.edits = @ + 1,
                                       !.creates = @ + Count(effs, MESSAGE_CREATE)]]
    /\ UNCHANGED <<initVars, connVars, page, cmd, remote, group>>

\* the ack of a stored message changes
StoreAckChanged ==
    /\ Subscribed
    /\ \E id \in DOMAIN store, ack \in Acks :
          LET m == store[id]
          IN  /\ m.type = "chat"
              /\ call' = Call("change:ack", <<StoredModel(id, m), ack>>)
              /\ out' = AckChangedEffects(StoredModel(id, m), ack)
              /\ last_message' = ChangeMessageSlot(StoredModel(id, m), last_message)
    /\ UNCHANGED <<initVars, connVars, page, cmd, remote, group, store>>

-----------------------------------------------------------------------------
(* The handlers on snapshots that lack fields: whether they return or throw *)

\* MessageTypes.CONTACT_CARD_MULTI, MessageTypes.CONTACT_CARD and
\* MessageTypes.GROUP_INVITE
CONTACT_CARD_MULTI == "multi_vcard"
CONTACT_CARD == "vcard"
GROUP_INVITE == "groups_v4_invite"

\* a wid object and a primitive string, as the values of from and to
Wid(s) == [_serialized |-> s]
Primitive(s) == [primitive |-> s]

\* snapshots whose optional fields may be absent
PartialMsgs ==
    { [type |-> "gp2", subtype |-> "modify", fromMe |-> FALSE, author |-> "a@c.us"] @@ r :
        r \in { << >>, [recipients |-> << >>], [recipients |-> <<"c@c.us">>] } }
    \cup
    { [type |-> "notification_template", subtype |-> "change_number",
       fromMe |-> FALSE, to |-> "b@c.us"] @@ t :
        t \in { << >>, [templateParams |-> << >>],
                [templateParams |-> <<"b@c.us", "a@c.us">>] } }
    \cup
    { [type |-> CONTACT_CARD_MULTI, subtype |-> Undefined, fromMe |-> f] @@ v :
        f \in BOOLEAN,
        v \in { << >>, [vcardList |-> << >>], [vcardList |-> <<"vcard">>] } }
    \cup
    { [type |-> GROUP_INVITE, subtype |-> Undefined, fromMe |-> FALSE,
       from |-> from, to |-> to] :
        from \in {Wid("a@c.us"), Primitive("a@c.us")},
        to \in {Wid("b@c.us"), Primitive("b@c.us")} }
    \cup
    { [type |-> t, subtype |-> Undefined, fromMe |-> f, body |-> "body"] :
        t \in {"chat", CONTACT_CARD}, f \in BOOLEAN }

\* '_serialized' in x  throws a TypeError for an x that is not an object
InThrows(x) == "primitive" \in DOMAIN x

\* new Message(client, data) throws: data.vcardList.map of a multi-contact
\* message without vcardList, '_serialized' in data.from or in data.to of
\* a group invite whose from or to is a string
NewMessageThrows(data) ==
    \/ data.type = CONTACT_CARD_MULTI /\ "vcardList" \notin DOMAIN data
    \/ data.type = GROUP_INVITE /\ (InThrows(data.from) \/ InThrows(data.to))

\* what a handler did: its effects and whether it threw or rejected
Outcome(effs, threw) == [out |-> effs, threw |-> threw]

\* the Message of a snapshot that lacks fields
PartialMessage(data) == [class |-> "Message", _data |-> data]

\* a handler that builds the Message and emits with it
EmitWithMessage(events, data, rest) ==
    IF NewMessageThrows(data) THEN Outcome(<< >>, TRUE)
    ELSE Outcome([i \in 1..Len(events) |->
                     Emit(events[i], <<PartialMessage(data)>> \o rest)], FALSE)

\* onAddMessageEvent on a message that is no group notification
AddMessageOutcome(msg) ==
    EmitWithMessage(IF msg.fromMe THEN <<MESSAGE_CREATE>>
                    ELSE <<MESSAGE_CREATE, MESSAGE_RECEIVED>>, msg, << >>)

\* onChangeMessageEvent: msg.recipients[0] throws without recipients,
\* msg.templateParams.find throws without templateParams
ChangeMessageOutcome(msg) ==
    IF ~(isParticipant(msg) \/ isContact(msg)) THEN Outcome(<< >>, FALSE)
    ELSE IF NewMessageThrows(msg) THEN Outcome(<< >>, TRUE)
    ELSE IF isParticipant(msg)
    THEN (IF "recipients" \notin DOMAIN msg THEN Outcome(<< >>, TRUE)
          ELSE Outcome(<< Emit(CONTACT_CHANGED,
                               <<PartialMessage(msg), msg.author,
                                 Idx(msg.recipients, 1), FALSE>>) >>, FALSE))
    ELSE (IF "templateParams" \notin DOMAIN msg THEN Outcome(<< >>, TRUE)
          ELSE Outcome(<< Emit(CONTACT_CHANGED,
                               <<PartialMessage(msg),
                                 FindNotEqual(msg.templateParams, msg.to),
                                 msg.to, TRUE>>) >>, FALSE))

\* a chat handler: it rejects when getChatById rejects
ChatOutcome(event, chat, found, rest) ==
    Outcome(ChatEffects(event, chat, found, rest), "rejected" \in DOMAIN found)

\* the promise of a handler invocation: cmd holds how it settled
Settled(fn, outcome) ==
    [fn |-> fn, pc |-> IF outcome.threw THEN "rejected" ELSE "resolved"]

\* a message handler is called with a snapshot that lacks fields
PartialMessageEvent ==
    /\ Subscribed
    /\ \E msg \in PartialMsgs :
       \E h \in { [fn |-> "onAddMessageEvent", args |-> <<msg>>,
                   outcome |-> AddMessageOutcome(msg)],
                  [fn |-> "onChangeMessageEvent", args |-> <<msg>>,
                   outcome |-> ChangeMessageOutcome(msg)],
                  [fn |-> "onMessageAckEvent", args |-> <<msg, 1>>,
                   outcome |-> EmitWithMessage(<<MESSAGE_ACK>>, msg, <<1>>)],
                  [fn |-> "onMessageMediaUploadedEvent", args |-> <<msg>>,
                   outcome |-> EmitWithMessage(<<MEDIA_UPLOADED>>, msg, << >>)],
                  [fn |-> "onRemoveMessageEvent", args |-> <<msg>>,
                   outcome |-> EmitWithMessage(<<MESSAGE_REVOKED_ME>>, msg, << >>)] } :
          /\ h.fn = "onAddMessageEvent" => msg.type # "gp2"
          /\ call' = Call(h.fn, h.args)
          /\ out' = h.outcome.out
          /\ cmd' = Settled(h.fn, h.outcome)
    /\ UNCHANGED <<initVars, connVars, last_message, page, remote, group, store>>

\* a chat handler is called and its lookup of the chat resolves or rejects
PartialChatEvent ==
    /\ Subscribed
    /\ \E chat \in ChatArgs : \E found \in ChatLookups(chat.id) :
       \E h \in { [fn |-> "onChatUnreadCountEvent",
                   outcome |-> ChatOutcome(UNREAD_COUNT, chat, found, << >>)],
                  [fn |-> "onRemoveChatEvent",
                   outcome |-> ChatOutcome(CHAT_REMOVED, chat, found, << >>)],
                  [fn |-> "onArchiveChatEvent",
                   outcome |-> ChatOutcome(CHAT_ARCHIVED, chat, found, <<TRUE, FALSE>>)] } :
          /\ call' = Call(h.fn, <<chat>>)
          /\ out' = h.outcome.out
          /\ cmd' = Settled(h.fn, h.outcome)
    /\ UNCHANGED <<initVars, connVars, last_message, page, remote, group, store>>

-----------------------------------------------------------------------------
(* Specifications *)

\* a Client with the default options: initialize and the message handlers
Next ==
    \/ InitializeGetPage
    \/ InitializeExpose
    \/ InitializeProbe
    \/ InitializeAuthenticated
    \/ PageRegistered
    \/ onAddMessageEvent
    \/ onChangeMessageTypeEvent
    \/ onChangeMessageEvent

Spec == Init /\ [][Next]_vars

\* a Client with any options: initialize and the connection handlers
NextConn ==
    \/ InitializeGetPage
    \/ InitializeExpose
    \/ InitializeProbe
    \/ InitializeAuthenticated
    \/ PageRegistered
    \/ PageMainLoaded
    \/ PageMainReady
    \/ AuthCodeChange
    \/ onAppStateChangedEvent
    \/ TakeoverTimeout
    \/ BrowserClosed

SpecConn == InitOptions /\ [][NextConn]_vars

\* a Client with the default options: initialize and the commands
NextCmd ==
    \/ InitializeGetPage
    \/ InitializeExpose
    \/ InitializeProbe
    \/ InitializeAuthenticated
    \/ PageRegistered
    \/ sendMessage
    \/ sendMessageSticker
    \/ sendMessageEvaluate
    \/ addParticipants
    \/ approveGroupMembershipRequests
    \/ rejectGroupMembershipRequests
    \/ createGroup
    \/ compareWwebVersions
    \/ sendChatstate
    \/ CommandSettled

SpecCmd == Init /\ [][NextCmd]_vars

\* a Client with the default options: initialize and the commands of a
\* GroupChat
NextGroup ==
    \/ InitializeGetPage
    \/ InitializeExpose
    \/ InitializeProbe
    \/ InitializeAuthenticated
    \/ PageRegistered
    \/ setSubject
    \/ setDescription
    \/ setMessagesAdminsOnly
    \/ setInfoAdminsOnly
    \/ setPicture
    \/ CommandSettled

SpecGroup == Init /\ [][NextGroup]_vars

\* the structures built from snapshots
NextStruct ==
    \/ newMessage
    \/ factoryCreate
    \/ CommandSettled

SpecStruct == Init /\ [][NextStruct]_vars

\* initialize and every message, call, reaction and chat handler
NextChat ==
    \/ InitializeGetPage
    \/ InitializeExpose
    \/ InitializeProbe
    \/ InitializeAuthenticated
    \/ PageRegistered
    \/ onAddMessageEvent
    \/ onChangeMessageTypeEvent
    \/ onChangeMessageEvent
    \/ onRemoveMessageEvent
    \/ onMessageAckEvent
    \/ onMessageMediaUploadedEvent
    \/ onIncomingCall
    \/ onReaction
    \/ onChatUnreadCountEvent
    \/ onRemoveChatEvent
    \/ onArchiveChatEvent

SpecChat == Init /\ [][NextChat]_vars

\* initialize and the handlers on snapshots that lack fields
NextPartial ==
    \/ InitializeGetPage
    \/ InitializeExpose
    \/ InitializeProbe
    \/ InitializeAuthenticated
    \/ PageRegistered
    \/ PartialMessageEvent
    \/ PartialChatEvent

SpecPartial == Init /\ [][NextPartial]_vars

\* initialize and the subscriptions to the messages of the page
NextStore ==
    \/ InitializeGetPage
    \/ InitializeExpose
    \/ InitializeProbe
    \/ InitializeAuthenticated
    \/ PageRegistered
    \/ StoreNewMessage
    \/ StoreTypeChanged
    \/ StoreBodyChanged
    \/ StoreAckChanged

SpecStore == Init /\ [][NextStore]_vars

\* the creation of the browser and the page
NextPage ==
    \/ getPage
    \/ CommandSettled

SpecPage == Init /\ [][NextPage]_vars

\* initialize, the page's auth codes and the handlers of the subscriptions
\* to messages, chats, calls, reactions and the connection state
NextOrder ==
    \/ InitializeGetPage
    \/ InitializeExpose
    \/ InitializeProbe
    \/ InitializeAuthenticated
    \/ PageRegistered
    \/ AuthCodeChange
    \/ onAddMessageEvent
    \/ onChangeMessageTypeEvent
    \/ onRemoveMessageEvent
    \/ onMessageAckEvent
    \/ onMessageMediaUploadedEvent
    \/ onIncomingCall
    \/ onReaction
    \/ onChatUnreadCountEvent
    \/ onRemoveChatEvent
    \/ onArchiveChatEvent
    \/ onAppStateChangedEvent
    \/ BrowserClosed

SpecOrder == Init /\ [][NextOrder]_vars

-----------------------------------------------------------------------------
(* Claims about the message handlers, checked under Spec *)

\* the snapshot the handler that ran last was called with
Arg == call.args[1]

\* C1: a message that is no group notification, handed to onAddMessageEvent,
\* is announced by one message_create; when it is not from the current user
\* one message event follows the message_create, for the same message; when
\* it is from the current user no message event is emitted.
C1_CreateBeforeReceived ==
    (call.fn = "onAddMessageEvent" /\ Arg.type # "gp2") =>
        /\ Count(out, MESSAGE_CREATE) = 1
        /\ \A i \in Positions(out, MESSAGE_CREATE) : out[i].args = <<Message(Arg)>>
        /\ Arg.id.fromMe => Count(out, MESSAGE_RECEIVED) = 0
        /\ ~Arg.id.fromMe =>
              /\ Count(out, MESSAGE_RECEIVED) = 1
              /\ \A i \in Positions(out, MESSAGE_CREATE) :
                    \A j \in Positions(out, MESSAGE_RECEIVED) :
                        i < j /\ out[j].args = out[i].args

C1_Witness ==
    /\ call.fn = "onAddMessageEvent"
    /\ Arg.type = "chat"
    /\ ~Arg.id.fromMe
    /\ Count(out, MESSAGE_CREATE) = 1
    /\ Count(out, MESSAGE_RECEIVED) = 1

\* C2 as claimed: every message handed to onAddMessageEvent, group
\* notifications (type gp2) included, results in a message_create event.
C2_EveryMessageCreates ==
    call.fn = "onAddMessageEvent" => Count(out, MESSAGE_CREATE) >= 1

\* C2 as amended: a message handed to onAddMessageEvent results in a
\* message_create event exactly when its type is not gp2, self-sent messages
\* included; a gp2 group notification results in its group event alone.
C2_CreateUnlessGroupNotification ==
    call.fn = "onAddMessageEvent" =>
        /\ Arg.type # "gp2" => Count(out, MESSAGE_CREATE) = 1
        /\ Arg.type = "gp2" =>
              /\ Count(out, MESSAGE_CREATE) = 0
              /\ Len(out) = 1
              /\ out[1].args = <<GroupNotification(Arg)>>

C2_Witness ==
    /\ call.fn = "onAddMessageEvent"
    /\ Arg.type = "gp2"
    /\ Arg.id.fromMe
    /\ Count(out, GROUP_JOIN) = 1
    /\ Count(out, MESSAGE_CREATE) = 0

\* C3: a type change to revoked emits one message_revoke_everyone; its second
\* argument is the snapshot in the last_message slot exactly when the slot
\* holds a message with the id (id.id) of the revoked one, and is undefined
\* when the slot is empty or holds another id; the snapshot it carries is one
\* from before the revocation, never one of another id.
C3_RevocationCorrelation ==
    (call.fn = "onChangeMessageTypeEvent" /\ Arg.type = "revoked") =>
        /\ Len(out) = 1
        /\ out[1].op = "emit"
        /\ out[1].name = MESSAGE_REVOKED_EVERYONE
        /\ out[1].args[1] = Message(Arg)
        /\ (last_message # << >> /\ last_message[1].id.id = Arg.id.id)
              <=> out[1].args[2] # NoMessage
        /\ out[1].args[2] # NoMessage =>
              /\ out[1].args[2] = Message(last_message[1])
              /\ out[1].args[2]._data.id.id = Arg.id.id
              /\ out[1].args[2].type # "revoked"

C3_Witness ==
    /\ call.fn = "onChangeMessageTypeEvent"
    /\ Arg.type = "revoked"
    /\ last_message # << >>
    /\ Len(out) = 1
    /\ out[1].args[2] # NoMessage
    /\ out[1].args[2].type = "chat"

\* C4: a change of a gp2 snapshot with subtype modify emits contact_changed
\* with oldId the author, newId the first recipient and isContact false; a
\* change of a notification_template snapshot with subtype change_number
\* emits it with newId the to field, oldId the first template parameter that
\* differs from newId, and isContact true; no other change emits it.
C4_IdentityRenumbering ==
    call.fn = "onChangeMessageEvent" =>
        /\ (Arg.type = "gp2" /\ Arg.subtype = "modify") =>
              out = << Emit(CONTACT_CHANGED,
                            <<Message(Arg), Arg.author, Idx(Arg.recipients, 1), FALSE>>) >>
        /\ (Arg.type = "notification_template" /\ Arg.subtype = "change_number") =>
              /\ Len(out) = 1
              /\ out[1].op = "emit" /\ out[1].name = CONTACT_CHANGED
              /\ out[1].args[1] = Message(Arg)
              /\ out[1].args[3] = Arg.to
              /\ out[1].args[4] = TRUE
              /\ LET oldId == out[1].args[2]
                     tp == Arg.templateParams
                 IN  \/ /\ oldId = Undefined
                        /\ \A i \in 1..Len(tp) : tp[i] = Arg.to
                     \/ \E i \in 1..Len(tp) :
                           /\ tp[i] = oldId
                           /\ oldId # Arg.to
                           /\ \A j \in 1..(i - 1) : tp[j] = Arg.to
        /\ ~(Arg.type = "gp2" /\ Arg.subtype = "modify")
           /\ ~(Arg.type = "notification_template" /\ Arg.subtype = "change_number")
              => Count(out, CONTACT_CHANGED) = 0

C4_Witness ==
    /\ call.fn = "onChangeMessageEvent"
    /\ Arg.type = "notification_template"
    /\ Arg.subtype = "change_number"
    /\ Arg.templateParams = <<"b@c.us", "a@c.us">>
    /\ Len(out) = 1
    /\ out[1].args[2] = "a@c.us"
    /\ out[1].args[3] = "b@c.us"
    /\ out[1].args[4] = TRUE

-----------------------------------------------------------------------------
(* Claims about the connection handlers, checked under SpecConn *)

\* the states the handler never tears down on, under the options in force
AllowList ==
    {"CONNECTED", "OPENING", "PAIRING", "TIMEOUT"}
    \cup (IF options.takeoverOnConflict THEN {"CONFLICT"} ELSE {})

\* effs holds one disconnected event, carrying reason, and one call of
\* destroy(), which comes right after it
DisconnectedThenDestroy(effs, reason) ==
    /\ Count(effs, DISCONNECTED) = 1
    /\ CountOp(effs, "destroy") = 1
    /\ \A i \in Positions(effs, DISCONNECTED) :
          /\ effs[i].args = <<reason>>
          /\ i + 1 \in DestroyPositions(effs)

\* effs holds no disconnected event and no call of destroy()
NoTeardown(effs) ==
    /\ Count(effs, DISCONNECTED) = 0
    /\ CountOp(effs, "destroy") = 0

\* C5: a transition to CONNECTED, OPENING, PAIRING or TIMEOUT emits no
\* disconnected and calls no destroy; a transition to a state outside the
\* allow-list emits one disconnected carrying the state, then calls destroy.
C5_ConnectionStateGating ==
    call.fn = "onAppStateChangedEvent" =>
        /\ Arg \in {"CONNECTED", "OPENING", "PAIRING", "TIMEOUT"} => NoTeardown(out)
        /\ Arg \notin AllowList => DisconnectedThenDestroy(out, Arg)

C5_Witness ==
    /\ call.fn = "onAppStateChangedEvent"
    /\ Arg = "UNPAIRED"
    /\ Count(out, DISCONNECTED) = 1
    /\ CountOp(out, "destroy") = 1
    /\ browser = "closing"

\* C6: a connection-state transition is re-emitted as one change_state event
\* carrying the state, ahead of any disconnected event and any teardown of
\* the same transition.
C6_StateChangedFirst ==
    call.fn = "onAppStateChangedEvent" =>
        /\ Count(out, STATE_CHANGED) = 1
        /\ Len(out) >= 1
        /\ out[1] = Emit(STATE_CHANGED, <<Arg>>)
        /\ \A i \in Positions(out, DISCONNECTED) \cup DestroyPositions(out) : i > 1

C6_Witness ==
    /\ call.fn = "onAppStateChangedEvent"
    /\ Arg = "UNLAUNCHED"
    /\ Len(out) = 3
    /\ out[1].name = STATE_CHANGED
    /\ out[2].name = DISCONNECTED
    /\ out[3].op = "destroy"

\* C7: with takeoverOnConflict on, a transition to CONFLICT sets one takeover
\* timeout of takeoverTimeoutMs and emits no disconnected and calls no
\* destroy; with it off, the transition sets no timeout and emits
\* disconnected, then calls destroy.
C7_TakeoverOnConflict ==
    (call.fn = "onAppStateChangedEvent" /\ Arg = "CONFLICT") =>
        IF options.takeoverOnConflict
        THEN /\ CountOp(out, "setTimeout") = 1
             /\ \A i \in 1..Len(out) :
                   out[i].op = "setTimeout" =>
                       out[i] = SetTimeout("takeover", options.takeoverTimeoutMs)
             /\ NoTeardown(out)
        ELSE /\ CountOp(out, "setTimeout") = 0
             /\ DisconnectedThenDestroy(out, "CONFLICT")

C7_Witness ==
    /\ call.fn = "onAppStateChangedEvent"
    /\ Arg = "CONFLICT"
    /\ options.takeoverOnConflict
    /\ options.takeoverTimeoutMs = 3000
    /\ timers > 0
    /\ CountOp(out, "setTimeout") = 1
    /\ destroyCalls = 0

\* C8: a call of destroy() made by a handler comes right after a
\* disconnected event of the same handler invocation, so that no teardown
\* happens without a disconnected event before it.
C8_DisconnectedBeforeDestroy ==
    /\ \A i \in DestroyPositions(out) :
          i > 1 /\ out[i - 1].op = "emit" /\ out[i - 1].name = DISCONNECTED
    /\ destroyCalls <= disconnects
    /\ browser \in {"closing", "closed"} => disconnects > 0

C8_Witness ==
    /\ call.fn = "onAppStateChangedEvent"
    /\ DestroyPositions(out) # {}
    /\ destroyCalls = 1
    /\ disconnects = 1
    /\ browser = "closed"

\* C9 as claimed: with qrMaxRetries > 0, the qr code that exceeds
\* qrMaxRetries makes the Client emit disconnected with the reason
\* 'Max qrcode retries reached' and tear down.
C9_QrRetryLimit ==
    (/\ call.fn = "qrChanged"
     /\ options.qrMaxRetries > 0
     /\ qrCount > options.qrMaxRetries) =>
        DisconnectedThenDestroy(out, "Max qrcode retries reached")

\* C10: the isRegistered probe has one of three outcomes: false installs the
\* pairing listener and emits no authentication failure; null emits one
\* authentication failure and installs no listener; true does neither; after
\* each of them initialize waits for the registration.
C10_ProbeOutcomes ==
    /\ probe = "pending" => ~authListener /\ authFailures = 0
    /\ probe = "false" => authListener /\ authFailures = 0
    /\ probe = "null" => ~authListener /\ authFailures = 1
    /\ probe = "true" => ~authListener /\ authFailures = 0
    /\ probe # "pending" => pc \in {"waitRegistered", "subscribed"}
    /\ (call = Call("initialize", <<"isRegistered", probe>>)) =>
          /\ pc = "waitRegistered"
          /\ Count(out, AUTHENTICATION_FAILURE) = (IF probe = "null" THEN 1 ELSE 0)

C10_Witness ==
    /\ probe = "null"
    /\ pc = "waitRegistered"
    /\ ~authListener
    /\ authFailures = 1
    /\ out = << Emit(AUTHENTICATION_FAILURE, <<"streamStatus">>) >>

-----------------------------------------------------------------------------
(* Claims about the start-up and the pairing, checked under SpecConn *)

\* C11, as the specification words it: authenticated is emitted only once
\* the page is registered and has signalled that its main interface is
\* loaded; ready and loading_screen are never emitted before authenticated.
C11_AuthenticatedAfterLoaded ==
    /\ AUTHENTICATED \in lifecycle => page \in {"loaded", "ready"}
    /\ READY \in lifecycle => AUTHENTICATED \in lifecycle
    /\ LOADING_SCREEN \in lifecycle => AUTHENTICATED \in lifecycle

\* C11: authenticated is emitted only once the registration is confirmed
\* (waitForFunction(isRegistered) has resolved), whether or not the page has
\* signalled conn.main_loaded yet; ready is never emitted before
\* authenticated, and loading_screen is never emitted before authenticated.
C11_AuthenticationOrdering ==
    /\ AUTHENTICATED \in lifecycle => IsRegistered(page) /\ pc = "subscribed"
    /\ READY \in lifecycle => AUTHENTICATED \in lifecycle
    /\ LOADING_SCREEN \in lifecycle => AUTHENTICATED \in lifecycle
    /\ Count(out, READY) + Count(out, LOADING_SCREEN) > 0 =>
          AUTHENTICATED \in lifecycle /\ Count(out, AUTHENTICATED) = 0

C11_Witness ==
    /\ lifecycle = {AUTHENTICATED, LOADING_SCREEN, READY}
    /\ call.fn = "conn.main_ready"
    /\ out = << Emit(READY, << >>) >>

\* C12: an auth-code change, which the Client hears only when the probe said
\* the page is not registered, emits one code event and no qr event when a
\* pairing number is configured, and one qr event and no code event when
\* none is configured.
C12_PairingCredentialChoice ==
    /\ call.fn = "qrChanged" =>
          /\ probe = "false"
          /\ options.pairingNumber = ""
          /\ Count(out, QR_RECEIVED) = 1
          /\ Count(out, CODE_RECEIVED) = 0
    /\ (call.fn = "EmitEvent" /\ call.args = <<CODE_RECEIVED>>) =>
          /\ probe = "false"
          /\ options.pairingNumber # ""
          /\ Count(out, CODE_RECEIVED) = 1
          /\ Count(out, QR_RECEIVED) = 0
          /\ qrCount = 0

C12_Witness ==
    /\ call.fn = "EmitEvent"
    /\ call.args = <<CODE_RECEIVED>>
    /\ options.pairingNumber # ""
    /\ out = << Emit(CODE_RECEIVED, <<LinkCode(options.pairingNumber)>>) >>

-----------------------------------------------------------------------------
(* Claims about Client.sendMessage, checked under SpecCmd *)

\* a sendMessage call is in progress or has just settled
Sending == cmd.fn = "sendMessage"

\* content or options.media is a MessageMedia
HasMedia(content, opts) ==
    InstanceOf(content, "MessageMedia") \/ InstanceOf(opts.media, "MessageMedia")

\* C13: the dispatch of sendMessage runs one branch, chosen by the types of
\* content and of options.media in the order media, location, poll, single
\* contact, contact list, and text when none of them applies: the media
\* branch runs exactly when content or options.media is a MessageMedia, each
\* later branch exactly when its type matches and no earlier branch ran.
C13_DispatchExclusiveTotal ==
    Sending =>
        LET c == cmd.content
            media == HasMedia(c, cmd.given)
        IN  /\ cmd.branch \in {"media", "optionsMedia", "location", "poll",
                               "contact", "contactList", "text"}
            /\ cmd.branch \in {"media", "optionsMedia"} <=> media
            /\ cmd.branch = "location" <=> ~media /\ InstanceOf(c, "Location")
            /\ cmd.branch = "poll" <=> ~media /\ InstanceOf(c, "Poll")
            /\ cmd.branch = "contact" <=> ~media /\ InstanceOf(c, "Contact")
            /\ cmd.branch = "contactList" <=> ~media /\ IsContactList(c)
            /\ cmd.branch = "text" <=>
                  /\ ~media
                  /\ c.class \notin {"Location", "Poll", "Contact"}
                  /\ ~IsContactList(c)

C13_Witness ==
    /\ Sending
    /\ InstanceOf(cmd.content, "Location")
    /\ InstanceOf(cmd.given.media, "MessageMedia")
    /\ cmd.branch = "optionsMedia"

\* the buckets of internalOptions
Buckets == {"attachment", "location", "poll", "contactCard", "contactCardList"}

\* the buckets that are set in internal
Populated(internal) == { b \in Buckets : internal[b] # NoValue }

\* the bucket a branch fills
BucketOf(branch) ==
    CASE branch \in {"media", "optionsMedia"} -> "attachment"
      [] branch = "location" -> "location"
      [] branch = "poll" -> "poll"
      [] branch = "contact" -> "contactCard"
      [] branch = "contactList" -> "contactCardList"

\* C14: after the dispatch, for every recognized type that is not text the
\* content handed to the page is the empty string and one bucket, the one of
\* that type, is populated; for text no bucket is populated and the content
\* is handed on as it was given.
C14_OneBucket ==
    Sending =>
        IF cmd.branch = "text"
        THEN /\ Populated(cmd.options) = {}
             /\ cmd.message = cmd.content
        ELSE /\ cmd.message = Str("")
             /\ Populated(cmd.options) = {BucketOf(cmd.branch)}

C14_Witness ==
    /\ Sending
    /\ cmd.branch = "optionsMedia"
    /\ cmd.content = Str("hi")
    /\ cmd.message = Str("")
    /\ cmd.options.caption = Str("hi")
    /\ Populated(cmd.options) = {"attachment"}

\* C15: link preview is enabled unless options.linkPreview is false, vCard
\* parsing is enabled unless options.parseVCards is false, and sendSeen is
\* true when options.sendSeen is undefined and the given value otherwise.
C15_OptionDefaults ==
    Sending =>
        /\ cmd.options.linkPreview = "true" <=> cmd.given.linkPreview # "false"
        /\ cmd.options.parseVCards = "true" <=> cmd.given.parseVCards # "false"
        /\ cmd.given.sendSeen = "undefined" => cmd.sendSeen = "true"
        /\ cmd.given.sendSeen # "undefined" => cmd.sendSeen = cmd.given.sendSeen

C15_Witness ==
    /\ Sending
    /\ cmd.given.linkPreview = "undefined"
    /\ cmd.options.linkPreview = "true"
    /\ cmd.given.parseVCards = "false"
    /\ cmd.options.parseVCards = "false"
    /\ cmd.given.sendSeen = "false"
    /\ cmd.sendSeen = "false"

\* C16: when sendMediaAsSticker is asked for with an attachment and
\* formatToWebpSticker fails, sendMessage is rejected and has made no call
\* in the page: the chat is not marked seen and no message is submitted.
C16_StickerFailureAborts ==
    (Sending /\ cmd.sticker = "throws") =>
        /\ cmd.pc = "rejected"
        /\ remote = << >>

C16_Witness ==
    /\ Sending
    /\ Truthy(cmd.given.sendMediaAsSticker)
    /\ cmd.options.attachment # NoValue
    /\ cmd.sticker = "throws"
    /\ cmd.pc = "rejected"

\* the names of the calls in calls
Names(calls) == [i \in 1..Len(calls) |-> calls[i].name]

\* the entry points of WPP.status
StatusEntryPoints ==
    {"WPP.status.sendTextStatus", "WPP.status.sendImageStatus",
     "WPP.status.sendVideoStatus"}

\* the entry points of WPP.status that calls reached
StatusCalled(calls) ==
    { Names(calls)[i] : i \in 1..Len(calls) } \cap StatusEntryPoints

\* C17: a sendMessage to status@broadcast that completes has used
\* sendTextStatus when the content is text, sendImageStatus when the content
\* is a MessageMedia with an image mimetype, and sendVideoStatus when it is a
\* MessageMedia with a video mimetype.
C17_StatusEntryPoints ==
    (Sending /\ cmd.chatId = "status@broadcast" /\ cmd.pc = "resolved") =>
        LET c == cmd.content IN
        /\ cmd.branch = "text" /\ InstanceOf(c, "string") =>
              StatusCalled(remote) = {"WPP.status.sendTextStatus"}
        /\ InstanceOf(c, "MessageMedia") /\ TestMimetype("image", c.mimetype) =>
              StatusCalled(remote) = {"WPP.status.sendImageStatus"}
        /\ InstanceOf(c, "MessageMedia") /\ TestMimetype("video", c.mimetype) =>
              StatusCalled(remote) = {"WPP.status.sendVideoStatus"}

\* content is text, or media with an image or a video mimetype
StatusSupported(c) ==
    \/ InstanceOf(c, "string")
    \/ TestMimetype("image", MimetypeOf(c))
    \/ TestMimetype("video", MimetypeOf(c))

\* C18: a sendMessage to status@broadcast whose content is neither text nor
\* image nor video media (and with no options.media) is rejected with an
\* error once it settles, and has called no entry point of WPP.status.
C18_StatusInvalidTypeThrows ==
    (/\ Sending
     /\ cmd.chatId = "status@broadcast"
     /\ cmd.given.media = NoValue
     /\ ~StatusSupported(cmd.content)
     /\ cmd.pc \in {"resolved", "rejected"}) =>
        /\ cmd.pc = "rejected"
        /\ StatusCalled(remote) = {}

\* the positions in calls of the calls of name
CallPositions(calls, name) == { i \in 1..Len(calls) : calls[i].name = name }

-----------------------------------------------------------------------------
(* Claims about GroupChat.addParticipants, checked under SpecCmd *)

\* the participant ids a call of addParticipants supplies, in order
Supplied(participantIds) ==
    IF InstanceOf(participantIds, "string")
    THEN <<participantIds>>
    ELSE participantIds.items

\* the participants of the add requests made in calls, in order
AddRequests(calls) ==
    LET at == CallPositions(calls, "WPP.group.addParticipants")
        nth[k \in 0..Len(calls)] ==
            IF k = 0 THEN << >>
            ELSE IF k \in at THEN Append(nth[k - 1], calls[k].args[1])
            ELSE nth[k - 1]
    IN  nth[Len(calls)]

\* C20: a call of addParticipants that completes has made one add request
\* for each participant id it was given, a single id or an array of ids, in
\* the order of the list.
C20_OneRequestPerParticipant ==
    (cmd.fn = "addParticipants" /\ cmd.pc = "resolved") =>
        AddRequests(remote) = Supplied(cmd.participantIds)

-----------------------------------------------------------------------------
(* Claims about the functions of the page, checked under SpecCmd *)

\* C26: compareWwebVersions throws when the operator is none of >, >=, <,
\* <=, = or when an operand is no string, and returns for every other input;
\* sendChatstate throws 'Invalid chatstate' for a state other than typing,
\* recording and stop, having made no call, and for these three states it
\* throws only when the call it makes fails.
C26_ValidationBeforeRemote ==
    /\ cmd.fn = "compareWwebVersions" =>
          /\ remote = << >>
          /\ cmd.pc = "rejected" <=>
                \/ cmd.operator \notin {">", ">=", "<", "<=", "="}
                \/ ~IsString(cmd.lOperand)
                \/ ~IsString(cmd.rOperand)
    /\ cmd.fn = "sendChatstate" =>
          IF cmd.state \in {"typing", "recording", "stop"}
          THEN /\ Len(remote) = 1
               /\ cmd.pc = "rejected" => cmd.error = remote[1].name
          ELSE /\ cmd.pc = "rejected"
               /\ cmd.error = "Invalid chatstate"
               /\ remote = << >>

C26_Witness ==
    /\ cmd.fn = "compareWwebVersions"
    /\ cmd.operator = "<"
    /\ IsString(cmd.lOperand)
    /\ ~IsString(cmd.rOperand)
    /\ cmd.pc = "rejected"
    /\ cmd.error = "CompareWwebVersionsError"

-----------------------------------------------------------------------------
(* Claims about the batch operations, checked under SpecCmd *)

\* the delays a sleep option stands for, as the documentation of the batch
\* operations describes them; [250, 500] when the option is absent
EffectiveDelays(sleep) ==
    IF sleep = NoValue THEN 250..500
    ELSE IF "kind" \in DOMAIN sleep THEN {sleep.val}
    ELSE LET low == sleep.items[1]
             high == sleep.items[2]
         IN  IF high - low < 100 THEN high..(high + 100) ELSE low..high

\* the delays waited in calls, in order
Delays(calls) ==
    LET at == CallPositions(calls, "sleep")
        nth[k \in 0..Len(calls)] ==
            IF k = 0 THEN << >>
            ELSE IF k \in at THEN Append(nth[k - 1], calls[k].args[1])
            ELSE nth[k - 1]
    IN  nth[Len(calls)]

\* the items a batch operation was given
BatchItems ==
    IF cmd.fn = "addParticipants" THEN Supplied(cmd.participantIds)
    ELSE IF cmd.given.requesterIds = NoValue THEN << >>
    ELSE cmd.given.requesterIds.items

\* C21: a batch operation (addParticipants, approve or reject membership
\* requests) that completes for two or more items has waited between
\* consecutive items, each time for a delay of its sleep option: exactly the
\* number when sleep is a number, within [low, high] when high - low >= 100,
\* within [high, high + 100] when high - low < 100.
C21_BatchDelayPolicy ==
    (/\ cmd.fn \in {"addParticipants", "approveGroupMembershipRequests",
                    "rejectGroupMembershipRequests"}
     /\ cmd.pc = "resolved"
     /\ Len(BatchItems) >= 2) =>
        /\ Len(Delays(remote)) = Len(BatchItems) - 1
        /\ \A i \in 1..Len(Delays(remote)) :
              Delays(remote)[i] \in EffectiveDelays(cmd.given.sleep)

\* C22: a call of addParticipants that returns the result of a participant:
\* when that result has the code 403 and autoSendInviteV4 is enabled, the
\* result carries a boolean isInviteV4Sent, which is true only if the invite
\* message was sent and its answer was OK; when autoSendInviteV4 is disabled
\* or the code is not 403, no invite message is sent and the result is
\* returned as the page answered it.
C22_AutoInviteFallback ==
    (cmd.fn = "addParticipants" /\ cmd.pc = "resolved" /\ cmd.result # NoValue) =>
        LET invites == CallPositions(remote, "ChatModel.sendGroupInviteMessage")
            ok == \/ cmd.inviteResult = Str("OK")
                  \/ /\ InstanceOf(cmd.inviteResult, "Object")
                     /\ cmd.inviteResult.messageSendResult = "OK"
        IN  IF cmd.rpc.code = 403 /\ cmd.given.autoSendInviteV4 # "false"
            THEN /\ cmd.result.code = 403
                 /\ cmd.result.isInviteV4Sent \in {"true", "false"}
                 /\ cmd.result.isInviteV4Sent = "true" =>
                        Cardinality(invites) = 1 /\ ok
            ELSE /\ invites = {}
                 /\ cmd.result = cmd.rpc

C22_Witness ==
    /\ cmd.fn = "addParticipants"
    /\ cmd.pc = "resolved"
    /\ cmd.result # NoValue
    /\ cmd.rpc.code = 403
    /\ cmd.given.autoSendInviteV4 = "undefined"
    /\ cmd.result.isInviteV4Sent = "true"
    /\ CallPositions(remote, "ChatModel.sendGroupInviteMessage") # {}

-----------------------------------------------------------------------------
(* Claims about the commands of a GroupChat, checked under SpecGroup *)

\* the four methods that change a setting of the group
Settings == {"setSubject", "setDescription", "setMessagesAdminsOnly",
             "setInfoAdminsOnly"}

\* C23: setSubject, setDescription, setMessagesAdminsOnly and
\* setInfoAdminsOnly return false and leave the GroupChat as it was when the
\* call in the page fails with a ServerStatusCodeError; they throw and leave
\* the GroupChat as it was for any other error; when the call succeeds they
\* return true and the field of the setting, and no other field, has the
\* new value.
C23_RecoverablePermissionFailure ==
    cmd.fn \in Settings =>
        /\ cmd.outcome = "ServerStatusCodeError" =>
              cmd.pc = "resolved" /\ cmd.result = FALSE /\ group = cmd.before
        /\ cmd.outcome = "Error" =>
              cmd.pc = "rejected" /\ group = cmd.before
        /\ cmd.outcome = "ok" =>
              /\ cmd.pc = "resolved"
              /\ cmd.result = TRUE
              /\ group = [cmd.before EXCEPT ![cmd.field] = cmd.value]
        /\ (cmd.pc = "resolved" /\ cmd.result = TRUE) => cmd.outcome = "ok"

C23_Witness ==
    /\ cmd.fn = "setMessagesAdminsOnly"
    /\ cmd.outcome = "ServerStatusCodeError"
    /\ cmd.before.announce = "false"
    /\ cmd.value = "true"
    /\ cmd.result = FALSE
    /\ group.announce = "false"


\* C24: setPicture returns false, and does not throw, when the picture
\* update is rejected with a ServerStatusCodeError, and the picture update
\* it makes is addressed to the id of the GroupChat.
C24_SetPictureRecoverable ==
    cmd.fn = "setPicture" =>
        /\ cmd.outcome = "rejects ServerStatusCodeError" =>
              cmd.pc = "resolved" /\ cmd.result = FALSE
        /\ \A i \in CallPositions(remote, "functions.sendSetPicture") :
              remote[i].args = <<Str(group.id)>>

-----------------------------------------------------------------------------
(* Claims about Client.createGroup, checked under SpecCmd *)

\* the participant ids a call of createGroup asks for
Requested == LET ids == AsArray(cmd.participants)
             IN  { ids[i] : i \in 1..Len(ids) }

\* C25: createGroup does not throw: when the creation of the group fails it
\* returns a string, and when the creation succeeds it returns an object
\* whose participants are exactly the requested ids, the ids that are not
\* registered carrying the status 404 and not having been handed to the
\* creation call.
C25_CreateGroupResult ==
    cmd.fn = "createGroup" =>
        /\ cmd.pc = "resolved"
        /\ ~cmd.created => InstanceOf(cmd.result, "string")
        /\ cmd.created =>
              /\ InstanceOf(cmd.result, "Object")
              /\ DOMAIN cmd.result.participants = Requested
              /\ \A p \in Requested : ~cmd.exists[p] =>
                    /\ cmd.result.participants[p].statusCode = 404
                    /\ \A i \in CallPositions(remote, "functions.sendCreateGroup") :
                          ~Includes(remote[i].args, p)

-----------------------------------------------------------------------------
(* Claims about the structures, checked under SpecStruct *)

\* C27, as the specification words it: for every snapshot, of any type, the
\* rawData of the Message built from it is the snapshot with all its fields,
\* and building the Message leaves the snapshot as it was.
C27_RawDataRoundTrip ==
    cmd.fn = "new Message" =>
        /\ cmd.rawData = cmd.data
        /\ cmd.snapshot = cmd.data

\* C27: for every snapshot whose type is not poll_creation the rawData of
\* the Message built from it is the snapshot with all its fields, and the
\* snapshot is left as it was; for a poll_creation snapshot the five poll
\* fields are removed from the snapshot and from rawData, every other field
\* is unchanged, and the poll fields' values are on the Message.
C27_RawDataRoundTripButPolls ==
    cmd.fn = "new Message" =>
        /\ cmd.rawData = cmd.snapshot
        /\ cmd.data.type # "poll_creation" => cmd.rawData = cmd.data
        /\ cmd.data.type = "poll_creation" =>
              /\ DOMAIN cmd.rawData = DOMAIN cmd.data \ PollFields
              /\ \A f \in DOMAIN cmd.rawData : cmd.rawData[f] = cmd.data[f]
              /\ \A f \in DOMAIN cmd.message.poll :
                    cmd.message.poll[f] = Field(cmd.data, f)

C27_Witness ==
    /\ cmd.fn = "new Message"
    /\ cmd.data.type = "poll_creation"
    /\ "pollName" \in DOMAIN cmd.data
    /\ "pollName" \notin DOMAIN cmd.rawData
    /\ cmd.message.poll.pollName = "poll"

\* a field is present in a snapshot: it is there and is not null
Present(data, f) == f \in DOMAIN data /\ data[f] # "null"

\* C28: hasMedia of a Message is true exactly when mediaKey and directPath
\* are both present in the snapshot, each of them being present, absent or
\* null.
C28_HasMedia ==
    cmd.fn = "new Message" =>
        (cmd.message.hasMedia <=>
            Present(cmd.data, "mediaKey") /\ Present(cmd.data, "directPath"))

C28_Witness ==
    /\ cmd.fn = "new Message"
    /\ Field(cmd.data, "mediaKey") = "key"
    /\ Field(cmd.data, "directPath") = "null"
    /\ ~cmd.message.hasMedia

\* C29: ChatFactory.create builds a GroupChat from a snapshot whose isGroup
\* is true and a PrivateChat when isGroup is false or absent;
\* ContactFactory.create builds a BusinessContact from a snapshot whose
\* isBusiness is true and a PrivateContact otherwise; no other field of the
\* snapshot matters.
C29_EntityFactory ==
    /\ cmd.fn = "ChatFactory.create" =>
          cmd.result = IF Field(cmd.data, "isGroup") = "true"
                       THEN "GroupChat" ELSE "PrivateChat"
    /\ cmd.fn = "ContactFactory.create" =>
          cmd.result = IF Field(cmd.data, "isBusiness") = "true"
                       THEN "BusinessContact" ELSE "PrivateContact"

C29_Witness ==
    /\ cmd.fn = "ChatFactory.create"
    /\ Field(cmd.data, "isGroup") = "false"
    /\ "groupMetadata" \in DOMAIN cmd.data
    /\ cmd.result = "PrivateChat"

-----------------------------------------------------------------------------
(* Claims about the handlers' remote calls, checked under SpecChat *)

\* the handlers of the messages, calls and reactions
MessageHandlers ==
    {"onAddMessageEvent", "onChangeMessageTypeEvent", "onChangeMessageEvent",
     "onRemoveMessageEvent", "onMessageAckEvent", "onMessageMediaUploadedEvent",
     "onIncomingCall", "onReaction"}

\* the handlers of the chats
ChatHandlers == {"onChatUnreadCountEvent", "onRemoveChatEvent", "onArchiveChatEvent"}

\* the positions of a handler's remote calls among its effects
RemoteCalls(effs) == { i \in 1..Len(effs) : effs[i].op = "evaluate" }

\* C30, as the specification words it: no handler other than the handler of
\* the number changes (onChangeMessageEvent) and the handler of the
\* uploaded media issues a remote call; the handlers of a removed chat, of
\* an archived chat and of the unread count emit their event without one.
C30_NoRemoteCallInHandlers ==
    call.fn \in (MessageHandlers \cup ChatHandlers)
               \ {"onChangeMessageEvent", "onMessageMediaUploadedEvent"}
        => RemoteCalls(out) = {}

\* C30: no handler of a message, a call or a reaction batch, the handlers of
\* the number changes and of the uploaded media included, issues a remote
\* call; the handlers of a removed chat, of an archived chat and of the
\* unread count each issue exactly one remote call, the lookup of the chat
\* by the id they were given, and emit their event only after it, at most
\* once, with the chat that was looked up.
C30_OnlyChatHandlersLookUp ==
    /\ call.fn \in MessageHandlers => RemoteCalls(out) = {}
    /\ call.fn \in ChatHandlers =>
          /\ RemoteCalls(out) = {1}
          /\ out[1] = Evaluate("getChatById", <<call.args[1].id>>)
          /\ Len(out) <= 2
          /\ Len(out) = 2 =>
                /\ out[2].op = "emit"
                /\ out[2].args[1].id = call.args[1].id

C30_Witness ==
    /\ call.fn = "onArchiveChatEvent"
    /\ Len(out) = 2
    /\ out[1].op = "evaluate"
    /\ out[2].name = CHAT_ARCHIVED
    /\ out[2].args[1].class = "GroupChat"

-----------------------------------------------------------------------------
(* Claims about the routing of group notifications and the last_message slot *)

\* the event the specification names for a subtype of group notification
RoutedTo(subtype) ==
    CASE subtype \in {"add", "invite", "linked_group_join"} -> "group_join"
      [] subtype \in {"remove", "leave"} -> "group_leave"
      [] subtype \in {"promote", "demote"} -> "group_admin_changed"
      [] subtype = "created_membership_requests" -> "group_membership_request"
      [] OTHER -> "group_update"

SlotHoldsLastChange ==
    /\ \/ last_message = << >>
       \/ Len(last_message) = 1 /\ last_message[1].type # "revoked"
    /\ call.fn = "onChangeMessageEvent" =>
          (call.args[1].type # "revoked" => last_message = <<call.args[1]>>)

\* a step that changes the slot is onChangeMessageEvent with a message that
\* is not revoked, and it leaves that message in the slot
SlotWrittenByChangeOnly ==
    last_message' # last_message =>
        /\ call'.fn = "onChangeMessageEvent"
        /\ call'.args[1].type # "revoked"
        /\ last_message' = <<call'.args[1]>>

-----------------------------------------------------------------------------
(* Claim about the order compareWwebVersions computes, checked under SpecCmd *)

\* the components of a version string: the numbers between its dots
RECURSIVE Components(_, _)
Components(cs, digits) ==
    IF cs = << >> THEN <<DigitsValue(digits)>>
    ELSE IF Head(cs) = "." THEN <<DigitsValue(digits)>> \o Components(Tail(cs), << >>)
    ELSE Components(Tail(cs), Append(digits, Head(cs)))

\* a precedes b component by component
RECURSIVE Precedes(_, _)
Precedes(a, b) ==
    IF b = << >> THEN FALSE
    ELSE IF a = << >> THEN TRUE
    ELSE IF Head(a) # Head(b) THEN Head(a) < Head(b)
    ELSE Precedes(Tail(a), Tail(b))

\* l op r in the component-wise order of versions
VersionOrder(l, op, r) ==
    LET a == Components(StripBeta(l.chars), << >>)
        b == Components(StripBeta(r.chars), << >>)
    IN  CASE op = "<" -> Precedes(a, b)
          [] op = "<=" -> ~Precedes(b, a)
          [] op = ">" -> Precedes(b, a)
          [] op = ">=" -> ~Precedes(a, b)
          [] op = "=" -> a = b

\* C40: for two version strings compareWwebVersions answers as the
\* component-wise numeric order of the dot-separated versions does, a
\* trailing -beta dropped: a < b exactly when a precedes b component by
\* component, also when components differ in their number of digits.
C40_ComponentwiseOrder ==
    cmd.fn = "compareWwebVersions" /\ cmd.pc = "resolved" =>
        (cmd.result <=> VersionOrder(cmd.lOperand, cmd.operator, cmd.rOperand))

-----------------------------------------------------------------------------
(* Claims about the teardown, checked under SpecConn *)

\* C37: once the teardown was triggered, by a connection state that is not
\* accepted or by the limit of QR retries, no later state change or QR
\* change emits disconnected or calls destroy again: destroy is called at
\* most once and disconnected is emitted at most once.
C37_TeardownOnce ==
    /\ destroyCalls <= 1
    /\ disconnects <= 1

\* C38: a takeover set up by a CONFLICT state never runs against the page
\* after the teardown: when destroy was called before the timeout expired,
\* the expired timeout issues no remote call.
C38_NoTakeoverAfterTeardown ==
    call.fn = "takeover" =>
        \A i \in 1..Len(out) : out[i].op = "evaluate" => out[i].args = <<"open">>

-----------------------------------------------------------------------------
(* Claim about the order of initialize, checked under SpecOrder *)

\* the functions initialize exposes for the store subscriptions
SubscriptionHandlers ==
    {"onAddMessageEvent", "onChangeMessageTypeEvent", "onChangeMessageEvent",
     "onRemoveMessageEvent", "onMessageAckEvent", "onMessageMediaUploadedEvent",
     "onIncomingCall", "onReaction", "onChatUnreadCountEvent",
     "onRemoveChatEvent", "onArchiveChatEvent", "onAppStateChangedEvent"}

\* the events of messages, chats, calls, reactions and the connection state
SubscriptionEvents ==
    {"message", "message_create", "message_ack", "message_revoke_me",
     "message_revoke_everyone", "media_uploaded", "group_join", "group_leave",
     "group_admin_changed", "group_membership_request", "group_update",
     "incoming_call", "message_reaction", "unread_count", "chat_removed",
     "chat_archived", "change_state"}

\* C39: the handlers are exposed to the page before a subscription that
\* calls them is installed, and the subscriptions to messages, chats,
\* calls, reactions and connection states are installed only after the
\* registration was confirmed and authenticated was emitted: a handler of a
\* subscription runs only after the handlers were exposed and
\* authenticated was emitted, and no event of a message, an ack, a
\* revocation, a chat or a connection state is emitted before authenticated.
C39_SubscribedAfterAuthenticated ==
    /\ call.fn \in SubscriptionHandlers =>
          /\ pc = "subscribed"
          /\ "authenticated" \in lifecycle
    /\ \A i \in 1..Len(out) :
          (out[i].op = "emit" /\ out[i].name \in SubscriptionEvents)
              => "authenticated" \in lifecycle

C39_Witness ==
    /\ call.fn = "onAppStateChangedEvent"
    /\ probe = "false"
    /\ qrCount > 0
    /\ "authenticated" \in lifecycle
    /\ \E i \in 1..Len(out) : out[i].name = "change_state"

-----------------------------------------------------------------------------
(* Claim about getPage, checked under SpecPage *)

\* the calls among cs that create a browser
BrowsersCreated(cs) ==
    { i \in 1..Len(cs) : cs[i].name \in {"connect", "launch", "launchPersistentContext"} }

\* the calls among cs that create a page
PagesCreated(cs) == { i \in 1..Len(cs) : cs[i].name = "newPage" }

\* C32: whatever the options, browserWS set or not and sessionName set or
\* not, getPage creates exactly one browser and goes on with exactly one
\* page: no second browser and no second page is created beside them.
C32_OneBrowserOnePage ==
    cmd.fn = "getPage" =>
        /\ Cardinality(BrowsersCreated(cmd.calls)) = 1
        /\ Cardinality(PagesCreated(cmd.calls)) <= 1

-----------------------------------------------------------------------------
(* Claims about the messages of the page's store, checked under SpecStore *)

\* the events called name among effs whose message has the id.id given
EmittedFor(effs, name, id) ==
    { i \in 1..Len(effs) :
        /\ effs[i].op = "emit"
        /\ effs[i].name = name
        /\ effs[i].args[1].id.id = id }

\* C35: message_create is emitted only for a newly created message: at most
\* once for a message id; a later change of the message, of its body or
\* caption, of its ack, or of the type of a message already announced,
\* emits no further message_create and no message for it.
C35_CreateOnlyOnce ==
    /\ \A id \in DOMAIN store : store[id].creates <= 1
    /\ call.fn \in {"change:body", "change:ack"} =>
          /\ Count(out, "message_create") = 0
          /\ Count(out, "message") = 0

\* C36: a new message of type ciphertext emits one message_ciphertext and
\* no message_create until its type changes, and the first change of its
\* type emits message_create once; a new message of another type emits
\* message_create at once; a message whose isNewMsg is false emits neither.
C36_CiphertextDeferral ==
    /\ call.fn = "chat.new_message" =>
          (IF ~call.args[2]
           THEN /\ Count(out, "message_create") = 0
                /\ Count(out, "message_ciphertext") = 0
           ELSE IF call.args[1].type = "ciphertext"
           THEN /\ Count(out, "message_ciphertext") = 1
                /\ Count(out, "message_create") = 0
           ELSE Count(out, "message_create") = 1)
    /\ call.fn = "change:type" =>
          \A id \in DOMAIN store :
              (call.args[1].id.id = id /\ call.args[1].type = "chat")
                  => store[id].creates = 1

-----------------------------------------------------------------------------
(* Claim about the handlers on snapshots that lack fields, under SpecPartial *)

\* C31: no handler throws or rejects: for a snapshot that is malformed or
\* lacks fields (a participant's number change without recipients, a
\* contact's number change without templateParams, a multi-contact message
\* without vcardList, a group invite whose from and to are strings, a chat
\* whose lookup fails) the handler returns normally.
C31_HandlersNeverThrow ==
    cmd.fn \in MessageHandlers \cup ChatHandlers => cmd.pc = "resolved"

====
